---- MODULE Spec2Model ----
(***************************************************************************)
(* Model of the account-rotation and quota-governed request pipeline of    *)
(* gemini-deck: the quota ledger (backend/app/routers/accounts.py), the    *)
(* generation backend and the rotating client                              *)
(* (backend/app/services/gemini_client.py) and the streaming session       *)
(* controller (backend/app/routers/chat.py).                               *)
(***************************************************************************)
EXTENDS Integers, Sequences, FiniteSets, TLC

(***************************************************************************)
(* Bounds of the model.                                                    *)
(***************************************************************************)
\* rows ever inserted into ai_accounts in the ledger specification
MaxRows == 2
\* daily_used is not incremented beyond MaxUsed in the ledger specification
MaxUsed == 2
\* calendar days are 0..MaxDay
MaxDay == 1
\* rows ever inserted into ai_accounts in the pipeline specification
MaxAccounts == 3
\* prompts a client sends, over all its connections
MaxRequests == 2
\* chunks the SDK delivers during one logical request, over all its attempts,
\* in the streaming specification
MaxChunks == 3
\* chunks the SDK delivers during one logical request in the session
\* specification
MaxSessionChunks == 2
\* sessions that call increment_usage concurrently
MaxSessions == 3
\* websocket sessions of one owner that run requests concurrently
MaxClients == 2
\* words in the message of an exception of the SDK
MaxWords == 2
\* steps in the plan of an execute_plan message
MaxSteps == 2

(***************************************************************************)
(* Program constants.                                                      *)
(***************************************************************************)
\* max_retries: int = 3 (default of MultiAccountGeminiClient.stream)
MaxRetries == 3

\* user ids, and the daily_limit values add_api_key is called with
Users == {1, 2}
DailyLimits == {1, 2}
None == 0
\* GeminiAPIClient.api_key taken from os.environ GEMINI_API_KEY
EnvKey == -1
\* chunk.text of the chunks generate_content_stream delivers ("" is falsy)
ChunkTexts == {"", "a", "b"}
NoCall == [user |-> None, result |-> None, called |-> FALSE]
\* no list_accounts or get_quota_status call has returned yet
NoRead == [op |-> "none"]
\* the sessions that call increment_usage concurrently
Sessions == 1..MaxSessions
\* no session has called increment_usage
NoSessions == [s \in Sessions |-> [pc |-> "idle", id |-> None]]
\* the concurrent websocket sessions of one owner, each with its own
\* MultiAccountGeminiClient: id is _current_account_id, att the attempt of
\* the for loop, pc "idle" (between two requests) or "stream"
Clients == 1..MaxClients
NoClients == [s \in Clients |-> [pc |-> "idle", id |-> None, att |-> 0]]

VARIABLES
    accounts,   \* table ai_accounts: id -> row
    today,      \* date.today()
    best,       \* what the last get_best_account call returned, NoCall after any other step
    marked,     \* ids given mark_account_error(id, "429") since the last change of day
    env_key,    \* whether GEMINI_API_KEY is set in the process environment
    pc,         \* websocket_endpoint: "closed", "recv" (receive_text), "stream" (async for chunk)
    self_user_id, \* MultiAccountGeminiClient.user_id
    cur,        \* MultiAccountGeminiClient._current_account_id
    client_key, \* GeminiAPIClient.api_key: None, EnvKey or the id of the row whose key it is
    attempt,    \* attempt of the for loop in MultiAccountGeminiClient.stream
    requests,   \* prompts received so far
    outcome,    \* how the last logical request ended, "running" while it streams
    req,        \* what the current logical request has done so far (history)
    sdk_chunks, \* chunks the SDK delivered in this logical request: [att, text]
    observed,   \* fragments the caller of MultiAccountGeminiClient.stream received
    ws_open,    \* whether the peer of the websocket is still connected
    prompt,     \* user_prompt of the message being handled
    events,     \* what send_json has sent since the last message was received
    store_calls, \* calls made on the MemoryStore since the last message was received
    read,       \* what the last list_accounts or get_quota_status call returned, NoRead after any
                \* other step of the ledger; in SpecRotation what one call of generate and of stream
                \* did, in SpecClassify what the two except clauses raised, in SpecOwners the reply of
                \* the last handler, in SpecModes the query parameters of the connection
    sess        \* concurrent sessions: callers of increment_usage, session -> [pc, id], or
                \* websocket sessions with their own client, session -> [pc, id, att]

ledgerVars == <<accounts, today, best, marked>>
clientVars == <<env_key, pc, self_user_id, cur, client_key, attempt, requests, outcome,
                req, sdk_chunks, observed>>
sessionVars == <<ws_open, prompt, events, store_calls>>
vars == <<accounts, today, best, marked, env_key, pc, self_user_id, cur, client_key,
          attempt, requests, outcome, req, sdk_chunks, observed,
          ws_open, prompt, events, store_calls, read, sess>>

(***************************************************************************)
(* The quota ledger: accounts.py                                           *)
(***************************************************************************)
\* INSERT INTO ai_accounts (user_id, name, provider, api_key, daily_limit):
\* daily_used DEFAULT 0, is_active DEFAULT 1, last_reset DEFAULT CURRENT_TIMESTAMP
NewRow(user_id, has_key, daily_limit, d) ==
    [user_id |-> user_id, has_key |-> has_key, daily_limit |-> daily_limit,
     daily_used |-> 0, last_reset |-> d, is_active |-> TRUE]

\* UPDATE ai_accounts SET daily_used = 0, last_reset = today
\* WHERE date(last_reset) < date(today)
reset_daily_quotas_if_needed(accts, d) ==
    [i \in DOMAIN accts |->
        IF accts[i].last_reset < d
        THEN [accts[i] EXCEPT !.daily_used = 0, !.last_reset = d]
        ELSE accts[i]]

\* (daily_limit - daily_used)
Remaining(row) == row.daily_limit - row.daily_used

\* Eligible with the is_active test of the WHERE clause left out
EligibleIgnoringActive(accts, user_id) ==
    {i \in DOMAIN accts :
        /\ accts[i].user_id = user_id
        /\ Remaining(accts[i]) > 0}

\* WHERE user_id = ? AND is_active = 1 AND (daily_limit - daily_used) > 0
Eligible(accts, user_id) ==
    {i \in DOMAIN accts :
        /\ accts[i].user_id = user_id
        /\ accts[i].is_active
        /\ Remaining(accts[i]) > 0}

\* BestRows with the sort ascending: ORDER BY (daily_limit - daily_used) LIMIT 1
BestRowsAscending(accts, user_id) ==
    {i \in Eligible(accts, user_id) :
        \A j \in Eligible(accts, user_id) : Remaining(accts[i]) <= Remaining(accts[j])}

\* ORDER BY (daily_limit - daily_used) DESC LIMIT 1: the rows that can come
\* first; the query names no second sort key, so any row of the top tie can.
BestRows(accts, user_id) ==
    {i \in Eligible(accts, user_id) :
        \A j \in Eligible(accts, user_id) : Remaining(accts[i]) >= Remaining(accts[j])}

\* increment_usage writing the value computed from a read of the initial row:
\* UPDATE ai_accounts SET daily_used = 1 WHERE id = ?
increment_usage_from_read(accts, account_id) ==
    IF account_id \in DOMAIN accts
    THEN [accts EXCEPT ![account_id].daily_used = 1]
    ELSE accts

\* UPDATE ai_accounts SET daily_used = daily_used + 1 WHERE id = ?
increment_usage(accts, account_id) ==
    IF account_id \in DOMAIN accts
    THEN [accts EXCEPT ![account_id].daily_used = @ + 1]
    ELSE accts

\* mark_account_error taking the row out of the rotation by its is_active flag:
\* UPDATE ai_accounts SET daily_used = daily_limit, is_active = 0 WHERE id = ?
mark_account_error_deactivate(accts, account_id, error_type) ==
    IF error_type = "429" /\ account_id \in DOMAIN accts
    THEN [accts EXCEPT ![account_id].daily_used = accts[account_id].daily_limit,
                       ![account_id].is_active = FALSE]
    ELSE accts

\* if error_type == "429": UPDATE ai_accounts SET daily_used = daily_limit WHERE id = ?
mark_account_error(accts, account_id, error_type) ==
    IF error_type = "429" /\ account_id \in DOMAIN accts
    THEN [accts EXCEPT ![account_id].daily_used = accts[account_id].daily_limit]
    ELSE accts

\* marked after mark_account_error(account_id, error_type)
MarkedAfter(m, accts, account_id, error_type) ==
    IF error_type = "429" /\ account_id \in DOMAIN accts THEN m \cup {account_id} ELSE m

\* history of a logical request that has done nothing yet: rows0 is the
\* number of rows and elig0 the set of the owner's eligible rows when the
\* request started; then the calls of _get_next_account (binds), the account
\* of each generation attempt (gen), of each QuotaExceededError (quota), of
\* each mark_account_error (mark), of each increment_usage that was
\* committed (inc) and of each increment_usage that raised (failed)
NewReq(rows, elig) ==
    [rows0 |-> rows, elig0 |-> elig, binds |-> 0, gen |-> << >>, quota |-> << >>,
     mark |-> << >>, inc |-> << >>, failed |-> << >>]

Init ==
    /\ accounts = << >>
    /\ today = 0
    /\ best = NoCall
    /\ marked = {}
    /\ env_key = FALSE
    /\ pc = "closed"
    /\ self_user_id = None
    /\ cur = None
    /\ client_key = None
    /\ attempt = 0
    /\ requests = 0
    /\ outcome = "none"
    /\ req = NewReq(0, {})
    /\ sdk_chunks = << >>
    /\ observed = << >>
    /\ ws_open = FALSE
    /\ prompt = << >>
    /\ events = << >>
    /\ store_calls = << >>
    /\ read = NoRead
    /\ sess = NoSessions

\* POST /api/accounts/add-api-key
add_api_key(user_id, has_key, daily_limit) ==
    /\ accounts' = Append(accounts, NewRow(user_id, has_key, daily_limit, today))
    /\ best' = NoCall
    /\ UNCHANGED <<today, marked>>
    /\ read' = NoRead
    /\ UNCHANGED <<clientVars, sessionVars, sess>>

\* PATCH /api/accounts/{account_id}/toggle; 404 when no row matches id and user
toggle_account(account_id, user_id) ==
    /\ account_id \in DOMAIN accounts
    /\ accounts[account_id].user_id = user_id
    /\ accounts' = [accounts EXCEPT ![account_id].is_active = ~@]
    /\ best' = NoCall
    /\ UNCHANGED <<today, marked>>
    /\ read' = NoRead
    /\ UNCHANGED <<clientVars, sessionVars, sess>>

\* get_best_account(user_id) called on its own (as get_quota_status calls it)
get_best_account(user_id) ==
    LET a == reset_daily_quotas_if_needed(accounts, today) IN
    /\ accounts' = a
    /\ IF BestRows(a, user_id) = {}
       THEN best' = [user |-> user_id, result |-> None, called |-> TRUE]
       ELSE \E i \in BestRows(a, user_id) :
                best' = [user |-> user_id, result |-> i, called |-> TRUE]
    /\ UNCHANGED <<today, marked>>
    /\ read' = NoRead
    /\ UNCHANGED <<clientVars, sessionVars, sess>>

\* increment_usage(account_id) applied to the table
RecordSuccess(account_id) ==
    /\ account_id \in DOMAIN accounts
    /\ accounts[account_id].daily_used < MaxUsed
    /\ accounts' = increment_usage(accounts, account_id)
    /\ best' = NoCall
    /\ UNCHANGED <<today, marked>>
    /\ read' = NoRead
    /\ UNCHANGED <<clientVars, sessionVars, sess>>

\* mark_account_error(account_id, "429") applied to the table
RecordExhaustion(account_id) ==
    /\ account_id \in DOMAIN accounts
    /\ accounts' = mark_account_error(accounts, account_id, "429")
    /\ marked' = MarkedAfter(marked, accounts, account_id, "429")
    /\ best' = NoCall
    /\ UNCHANGED today
    /\ read' = NoRead
    /\ UNCHANGED <<clientVars, sessionVars, sess>>

\* midnight: date.today() moves on
NextDay ==
    /\ today < MaxDay
    /\ today' = today + 1
    /\ marked' = {}
    /\ best' = NoCall
    /\ UNCHANGED accounts
    /\ read' = NoRead
    /\ UNCHANGED <<clientVars, sessionVars, sess>>

\* SUM(...) over the rows ids of accts, of the column col
RECURSIVE SqlSum(_, _, _)
SqlSum(accts, ids, col) ==
    IF ids = {} THEN 0
    ELSE LET i == CHOOSE j \in ids : TRUE
         IN accts[i][col] + SqlSum(accts, ids \ {i}, col)

\* ListedRows with quota_remaining taken from the table before the rollover
ListedRowsStale(accts, d, user_id) ==
    {[id |-> i,
      daily_limit |-> accts[i].daily_limit,
      daily_used |-> accts[i].daily_used,
      quota_remaining |-> accts[i].daily_limit - accts[i].daily_used,
      is_active |-> accts[i].is_active] :
        i \in {j \in DOMAIN accts : accts[j].user_id = user_id}}

\* list_accounts: reset_daily_quotas_if_needed(), then SELECT ... WHERE
\* user_id = ?, one AIAccountResponse per row (the rows as a set: the order
\* by created_at leaves rows of the same second in any order)
ListedRows(accts, d, user_id) ==
    LET a == reset_daily_quotas_if_needed(accts, d) IN
    {[id |-> i,
      daily_limit |-> a[i].daily_limit,
      daily_used |-> a[i].daily_used,
      quota_remaining |-> a[i].daily_limit - a[i].daily_used,
      is_active |-> a[i].is_active] :
        i \in {j \in DOMAIN a : a[j].user_id = user_id}}

\* GET /api/accounts
list_accounts(user_id) ==
    /\ accounts' = reset_daily_quotas_if_needed(accounts, today)
    /\ read' = [op |-> "list_accounts", user |-> user_id,
                rows |-> ListedRows(accounts, today, user_id)]
    /\ best' = NoCall
    /\ UNCHANGED <<today, marked>>
    /\ UNCHANGED <<clientVars, sessionVars, sess>>

\* QuotaStatus with the aggregate taken over the active rows only
QuotaStatusActiveOnly(a, user_id, best_id) ==
    LET mine == {j \in DOMAIN a : a[j].user_id = user_id /\ a[j].is_active}
        total_limit == SqlSum(a, mine, "daily_limit")
        total_used == SqlSum(a, mine, "daily_used")
    IN [op |-> "get_quota_status", user |-> user_id,
        total_accounts |-> Cardinality(mine),
        active_accounts |-> Cardinality({j \in mine : a[j].is_active}),
        total_daily_limit |-> total_limit,
        total_daily_used |-> total_used,
        total_remaining |-> total_limit - total_used,
        best_account_id |-> best_id]

\* QuotaStatus(...) built from the aggregate row and from best
QuotaStatus(a, user_id, best_id) ==
    LET mine == {j \in DOMAIN a : a[j].user_id = user_id}
        total_limit == SqlSum(a, mine, "daily_limit")
        total_used == SqlSum(a, mine, "daily_used")
    IN [op |-> "get_quota_status", user |-> user_id,
        total_accounts |-> Cardinality(mine),
        active_accounts |-> Cardinality({j \in mine : a[j].is_active}),
        total_daily_limit |-> total_limit,
        total_daily_used |-> total_used,
        total_remaining |-> total_limit - total_used,
        best_account_id |-> best_id]

\* GET /api/accounts/quota: reset_daily_quotas_if_needed(), the aggregate
\* SELECT, then get_best_account(user_id)
get_quota_status(user_id) ==
    LET a == reset_daily_quotas_if_needed(accounts, today) IN
    /\ accounts' = a
    /\ IF BestRows(a, user_id) = {}
       THEN /\ best' = [user |-> user_id, result |-> None, called |-> TRUE]
            /\ read' = QuotaStatus(a, user_id, None)
       ELSE \E i \in BestRows(a, user_id) :
                /\ best' = [user |-> user_id, result |-> i, called |-> TRUE]
                /\ read' = QuotaStatus(a, user_id, i)
    /\ UNCHANGED <<today, marked>>
    /\ UNCHANGED <<clientVars, sessionVars, sess>>

NextLedger ==
    \/ \E u \in Users, l \in DailyLimits :
          Len(accounts) < MaxRows /\ add_api_key(u, TRUE, l)
    \/ \E i \in 1..MaxRows, u \in Users : toggle_account(i, u)
    \/ \E u \in Users : get_best_account(u)
    \/ \E i \in 1..MaxRows : RecordSuccess(i)
    \/ \E i \in 1..MaxRows : RecordExhaustion(i)
    \/ NextDay

SpecLedger == Init /\ [][NextLedger]_vars

\* a session enters increment_usage(account_id): get_db_connection(), conn.cursor()
increment_usage_call(s, account_id) ==
    /\ sess[s].pc = "idle"
    /\ account_id \in DOMAIN accounts
    /\ sess' = [sess EXCEPT ![s] = [pc |-> "connected", id |-> account_id]]
    /\ best' = NoCall
    /\ read' = NoRead
    /\ UNCHANGED <<accounts, today, marked>>
    /\ UNCHANGED <<clientVars, sessionVars>>

\* cursor.execute(UPDATE ...): SQLite runs the statement as one step under
\* the write lock of the database, which no other connection holds
increment_usage_execute(s) ==
    /\ sess[s].pc = "connected"
    /\ \A t \in Sessions : sess[t].pc # "executed"
    /\ accounts' = increment_usage(accounts, sess[s].id)
    /\ sess' = [sess EXCEPT ![s].pc = "executed"]
    /\ best' = NoCall
    /\ read' = NoRead
    /\ UNCHANGED <<today, marked>>
    /\ UNCHANGED <<clientVars, sessionVars>>

\* conn.commit(); conn.close(): the write lock is released
increment_usage_commit(s) ==
    /\ sess[s].pc = "executed"
    /\ sess' = [sess EXCEPT ![s].pc = "committed"]
    /\ best' = NoCall
    /\ read' = NoRead
    /\ UNCHANGED <<accounts, today, marked>>
    /\ UNCHANGED <<clientVars, sessionVars>>

\* The writers: MaxRows rows exist, and each of MaxSessions sessions calls
\* increment_usage once, on any row, at any moment.
InitWriters ==
    /\ accounts = [i \in 1..MaxRows |->
                      NewRow(1, TRUE, CHOOSE l \in DailyLimits : \A m \in DailyLimits : l >= m, 0)]
    /\ today = 0
    /\ best = NoCall
    /\ marked = {}
    /\ env_key = FALSE
    /\ pc = "closed"
    /\ self_user_id = None
    /\ cur = None
    /\ client_key = None
    /\ attempt = 0
    /\ requests = 0
    /\ outcome = "none"
    /\ req = NewReq(0, {})
    /\ sdk_chunks = << >>
    /\ observed = << >>
    /\ ws_open = FALSE
    /\ prompt = << >>
    /\ events = << >>
    /\ store_calls = << >>
    /\ read = NoRead
    /\ sess = NoSessions

NextWriters ==
    \/ \E s \in Sessions, i \in 1..MaxRows : increment_usage_call(s, i)
    \/ \E s \in Sessions : increment_usage_execute(s)
    \/ \E s \in Sessions : increment_usage_commit(s)

SpecWriters == InitWriters /\ [][NextWriters]_vars

\* The reads: MaxRows rows of any owner and limit exist from day 0 on;
\* successes are recorded, rows are toggled, days pass, and the three
\* endpoints that compare quotas are called.
InitReads ==
    /\ accounts \in [1..MaxRows -> {NewRow(u, TRUE, l, 0) : u \in Users, l \in DailyLimits}]
    /\ today = 0
    /\ best = NoCall
    /\ marked = {}
    /\ env_key = FALSE
    /\ pc = "closed"
    /\ self_user_id = None
    /\ cur = None
    /\ client_key = None
    /\ attempt = 0
    /\ requests = 0
    /\ outcome = "none"
    /\ req = NewReq(0, {})
    /\ sdk_chunks = << >>
    /\ observed = << >>
    /\ ws_open = FALSE
    /\ prompt = << >>
    /\ events = << >>
    /\ store_calls = << >>
    /\ read = NoRead
    /\ sess = NoSessions

NextReads ==
    \/ \E i \in 1..MaxRows, u \in Users : toggle_account(i, u)
    \/ \E i \in 1..MaxRows : RecordSuccess(i)
    \/ NextDay
    \/ \E u \in Users : get_best_account(u)
    \/ \E u \in Users : list_accounts(u)
    \/ \E u \in Users : get_quota_status(u)

SpecReads == InitReads /\ [][NextReads]_vars

(***************************************************************************)
(* The generation backend: GeminiAPIClient (gemini_client.py)              *)
(***************************************************************************)
\* messages of the exceptions the SDK raises, as sequences of characters
Msg429 == <<"4", "2", "9">>
MsgQuota == <<"Q", "u", "o", "t", "a">>
MsgTimeout == <<"T", "i", "m", "e", "o", "u", "t">>
\* str(e) of the sqlite3.OperationalError a write raises when it cannot get
\* the lock of the database
MsgLocked == <<"database is locked">>
SdkErrors == {Msg429, MsgQuota, MsgTimeout}

\* str.lower() on the characters the messages and prompts are made of
LowerChar(c) ==
    CASE c = "Q" -> "q"
      [] c = "T" -> "t"
      [] c = "R" -> "r"
      [] c = "M" -> "m"
      [] c = "A" -> "a"
      [] c = "E" -> "e"
      [] c = "S" -> "s"
      [] c = "O" -> "o"
      [] c = "U" -> "u"
      [] c = "C" -> "c"
      [] c = "X" -> "x"
      [] c = "H" -> "h"
      [] c = "D" -> "d"
      [] OTHER -> c

\* str(e).lower()
Lower(msg) == [i \in 1..Len(msg) |-> LowerChar(msg[i])]

\* needle in hay
Contains(hay, needle) ==
    \E i \in 1..(Len(hay) - Len(needle) + 1) :
        SubSeq(hay, i, i + Len(needle) - 1) = needle

\* the test of generate's except clause: error_str = str(e).lower();
\* "429" in error_str or "quota" in error_str or "rate" in error_str
\* or "resource_exhausted" in error_str
IsQuotaErrorGenerate(msg) ==
    LET error_str == Lower(msg) IN
    \/ Contains(error_str, <<"4", "2", "9">>)
    \/ Contains(error_str, <<"q", "u", "o", "t", "a">>)
    \/ Contains(error_str, <<"r", "a", "t", "e">>)
    \/ Contains(error_str, <<"r", "e", "s", "o", "u", "r", "c", "e", "_",
                             "e", "x", "h", "a", "u", "s", "t", "e", "d">>)

\* IsQuotaError looking for the indicators in str(e) as it is
IsQuotaErrorCased(msg) ==
    LET error_str == msg IN
    \/ Contains(error_str, <<"4", "2", "9">>)
    \/ Contains(error_str, <<"q", "u", "o", "t", "a">>)
    \/ Contains(error_str, <<"r", "a", "t", "e">>)
    \/ Contains(error_str, <<"r", "e", "s", "o", "u", "r", "c", "e", "_",
                             "e", "x", "h", "a", "u", "s", "t", "e", "d">>)

\* the test of stream's except clause: error_str = str(e).lower();
\* "429" in error_str or "quota" in error_str or "rate" in error_str
\* or "resource_exhausted" in error_str
IsQuotaError(msg) ==
    LET error_str == Lower(msg) IN
    \/ Contains(error_str, <<"4", "2", "9">>)
    \/ Contains(error_str, <<"q", "u", "o", "t", "a">>)
    \/ Contains(error_str, <<"r", "a", "t", "e">>)
    \/ Contains(error_str, <<"r", "e", "s", "o", "u", "r", "c", "e", "_",
                             "e", "x", "h", "a", "u", "s", "t", "e", "d">>)

\* GeminiAPIClient.stream: for chunk in stream: if chunk.text: yield chunk.text
BackendYields(text) == text # ""

(***************************************************************************)
(* The rotating client: MultiAccountGeminiClient (gemini_client.py)        *)
(***************************************************************************)
\* _get_next_account: the outcomes of one call, one per row get_best_account
\* can return. error is "ok", "no_quota" (ValueError, no account with quota)
\* or "no_key" (ValueError, the account has no API key configured).
GetNextAccount(accts, d, u, c, k) ==
    LET a == reset_daily_quotas_if_needed(accts, d) IN
    IF BestRows(a, u) = {}
    THEN {[accounts |-> a, cur |-> c, client_key |-> k, found |-> None,
           error |-> "no_quota"]}
    ELSE {[accounts |-> a, cur |-> i,
           client_key |-> IF a[i].has_key THEN i ELSE k,
           found |-> i,
           error |-> IF a[i].has_key THEN "ok" ELSE "no_key"] : i \in BestRows(a, u)}

\* Relay keeping only the fragment that arrived last
RelayLatest(obs, chunk) == <<chunk>>

\* MultiAccountGeminiClient.stream: async for chunk in self._client.stream(...):
\* yield chunk; obs is what the caller has received so far
Relay(obs, chunk) == Append(obs, chunk)

\* MayRetry with the last attempt handled like the others
MayRetryAlways(att, max_retries) == att < max_retries

\* if attempt < max_retries - 1
MayRetry(att, max_retries) == att < max_retries - 1

\* OnSuccess recording nothing
OnSuccessNothing(accts, c) == accts

\* _on_success: if self._current_account_id: increment_usage(...)
OnSuccess(accts, c) == IF c # None THEN increment_usage(accts, c) ELSE accts

\* _on_quota_exceeded, first half: if self._current_account_id: mark_account_error(..., "429")
OnQuotaMark(accts, c) == IF c # None THEN mark_account_error(accts, c, "429") ELSE accts

\* OnOtherError handling the failure like a QuotaExceededError
OnOtherErrorMark(accts, c) == mark_account_error(accts, c, "429")

\* except Exception: raise (MultiAccountGeminiClient.stream): the ledger is
\* left as it is
OnOtherError(accts, c) == accts

\* session s calls client.stream for a new request:
\* if not self._current_account_id: await self._get_next_account(); a
\* ValueError of _get_next_account ends the request, otherwise attempt 0 starts
stream_enter(s) ==
    /\ sess[s].pc = "idle"
    /\ IF sess[s].id = None
       THEN \E r \in GetNextAccount(accounts, today, 1, sess[s].id, None) :
              /\ accounts' = r.accounts
              /\ sess' = [sess EXCEPT ![s] = [pc |-> IF r.error = "ok" THEN "stream" ELSE "idle",
                                              id |-> r.cur, att |-> 0]]
       ELSE /\ sess' = [sess EXCEPT ![s] = [pc |-> "stream", id |-> @.id, att |-> 0]]
            /\ UNCHANGED accounts
    /\ best' = NoCall
    /\ read' = NoRead
    /\ UNCHANGED <<today, marked>>
    /\ UNCHANGED <<clientVars, sessionVars>>

\* the attempt of session s ends in QuotaExceededError: on the last attempt it
\* is re-raised, otherwise _on_quota_exceeded marks the bound account and
\* calls _get_next_account, and the next attempt starts
stream_quota_exceeded(s) ==
    /\ sess[s].pc = "stream"
    /\ IF ~MayRetry(sess[s].att, MaxRetries)
       THEN /\ sess' = [sess EXCEPT ![s].pc = "idle"]
            /\ UNCHANGED <<accounts, marked>>
       ELSE \E r \in GetNextAccount(OnQuotaMark(accounts, sess[s].id), today, 1,
                                    sess[s].id, sess[s].id) :
              /\ accounts' = r.accounts
              /\ marked' = MarkedAfter(marked, accounts, sess[s].id, "429")
              /\ sess' = [sess EXCEPT ![s] =
                            IF r.error = "ok" /\ sess[s].att + 1 < MaxRetries
                            THEN [pc |-> "stream", id |-> r.cur, att |-> sess[s].att + 1]
                            ELSE [pc |-> "idle", id |-> r.cur, att |-> sess[s].att]]
    /\ best' = NoCall
    /\ read' = NoRead
    /\ UNCHANGED today
    /\ UNCHANGED <<clientVars, sessionVars>>

\* the attempt of session s completes: await self._on_success(); return
stream_success(s) ==
    /\ sess[s].pc = "stream"
    /\ accounts[sess[s].id].daily_used < MaxUsed
    /\ accounts' = OnSuccess(accounts, sess[s].id)
    /\ sess' = [sess EXCEPT ![s].pc = "idle"]
    /\ best' = NoCall
    /\ read' = NoRead
    /\ UNCHANGED <<today, marked>>
    /\ UNCHANGED <<clientVars, sessionVars>>

\* the attempt of session s fails otherwise: except Exception: raise
stream_other_error(s) ==
    /\ sess[s].pc = "stream"
    /\ accounts' = OnOtherError(accounts, sess[s].id)
    /\ sess' = [sess EXCEPT ![s].pc = "idle"]
    /\ best' = NoCall
    /\ read' = NoRead
    /\ UNCHANGED <<today, marked>>
    /\ UNCHANGED <<clientVars, sessionVars>>

\* Concurrent sessions: MaxRows accounts of one owner exist, MaxClients
\* sessions of that owner run their requests in any interleaving, days pass.
InitClients ==
    /\ accounts = [i \in 1..MaxRows |->
                      NewRow(1, TRUE, CHOOSE l \in DailyLimits : \A m \in DailyLimits : l >= m, 0)]
    /\ today = 0
    /\ best = NoCall
    /\ marked = {}
    /\ env_key = FALSE
    /\ pc = "closed"
    /\ self_user_id = None
    /\ cur = None
    /\ client_key = None
    /\ attempt = 0
    /\ requests = 0
    /\ outcome = "none"
    /\ req = NewReq(0, {})
    /\ sdk_chunks = << >>
    /\ observed = << >>
    /\ ws_open = FALSE
    /\ prompt = << >>
    /\ events = << >>
    /\ store_calls = << >>
    /\ read = NoRead
    /\ sess = NoClients

NextClients ==
    \/ \E s \in Clients : stream_enter(s)
    \/ \E s \in Clients : stream_quota_exceeded(s)
    \/ \E s \in Clients : stream_success(s)
    \/ \E s \in Clients : stream_other_error(s)
    \/ NextDay

SpecClients == InitClients /\ [][NextClients]_vars

(***************************************************************************)
(* generate and stream of MultiAccountGeminiClient as functions of the     *)
(* client, the ledger and the outcomes of the backend calls                *)
(***************************************************************************)
\* what one backend call does: it returns (for stream: its stream ends), it
\* raises QuotaExceededError, or it raises something else
BackendOutcomes == {"success", "quota", "other"}

\* one ledger operation of the rotation: "bind" (get_best_account, id is the
\* row found or None), "record_exhaustion" or "record_success"
LedgerOp(kind, id) == [op |-> kind, id |-> id]

\* how a call ended: the state of the client and of the ledger, the ledger
\* operations made (in st.ops) and the outcome
CallResult(st, how) ==
    [ops |-> st.ops, outcome |-> how, accounts |-> st.accounts, cur |-> st.cur,
     client_key |-> st.client_key]

\* the client st after _get_next_account returned or raised as in r
AfterBind(st, r) ==
    [accounts |-> r.accounts, cur |-> r.cur, client_key |-> r.client_key,
     ops |-> Append(st.ops, LedgerOp("bind", r.found))]

\* the client st after _on_success
AfterSuccess(st) ==
    [st EXCEPT !.accounts = OnSuccess(@, st.cur),
               !.ops = IF st.cur # None THEN Append(@, LedgerOp("record_success", st.cur))
                       ELSE @]

\* the client st after the mark_account_error call of _on_quota_exceeded
AfterMark(st) ==
    [st EXCEPT !.accounts = OnQuotaMark(@, st.cur),
               !.ops = IF st.cur # None THEN Append(@, LedgerOp("record_exhaustion", st.cur))
                       ELSE @]

\* generate_may_retry with the last attempt handled like the others
generate_may_retry_always(att, max_retries) == att < max_retries

\* generate: if attempt < max_retries - 1
generate_may_retry(att, max_retries) == att < max_retries - 1

\* generate, from "for attempt in range(max_retries)" on, at attempt att: the
\* results of the call, one per choice get_best_account can make; outs[att + 1]
\* is what the backend call of attempt att does
RECURSIVE generate_attempts(_, _, _, _, _, _)
generate_attempts(st, d, u, outs, att, max_retries) ==
    IF att >= max_retries
    THEN {CallResult(st, "ValueError")}  \* raise ValueError("Max retries exceeded")
    ELSE IF st.client_key = None
    THEN {CallResult(st, "ValueError")}  \* GeminiAPIClient.generate: No API key configured
    ELSE IF outs[att + 1] = "success"
    THEN {CallResult(AfterSuccess(st), "done")}
    ELSE IF outs[att + 1] = "other"
    THEN {CallResult(st, "BackendError")}
    ELSE IF ~generate_may_retry(att, max_retries)
    THEN {CallResult(st, "QuotaExceededError")}
    ELSE UNION {IF r.error # "ok"
                THEN {CallResult(AfterBind(AfterMark(st), r), "ValueError")}
                ELSE generate_attempts(AfterBind(AfterMark(st), r), d, u, outs, att + 1,
                                       max_retries) :
                    r \in GetNextAccount(AfterMark(st).accounts, d, u, st.cur, st.client_key)}

\* MultiAccountGeminiClient.generate(prompt, context, max_retries) called on a
\* client with _current_account_id c and backend key k
generate(accts, d, u, c, k, outs, max_retries) ==
    LET st == [accounts |-> accts, cur |-> c, client_key |-> k, ops |-> << >>] IN
    IF c # None
    THEN generate_attempts(st, d, u, outs, 0, max_retries)
    ELSE UNION {IF r.error # "ok"
                THEN {CallResult(AfterBind(st, r), "ValueError")}
                ELSE generate_attempts(AfterBind(st, r), d, u, outs, 0, max_retries) :
                    r \in GetNextAccount(accts, d, u, c, k)}

\* stream, from "for attempt in range(max_retries)" on, at attempt att, driven
\* to its end by the caller; when the range is used up the generator returns
RECURSIVE stream_attempts(_, _, _, _, _, _)
stream_attempts(st, d, u, outs, att, max_retries) ==
    IF att >= max_retries
    THEN {CallResult(st, "returned")}
    ELSE IF st.client_key = None
    THEN {CallResult(st, "ValueError")}  \* GeminiAPIClient.stream: No API key configured
    ELSE IF outs[att + 1] = "success"
    THEN {CallResult(AfterSuccess(st), "done")}
    ELSE IF outs[att + 1] = "other"
    THEN {CallResult(st, "BackendError")}
    ELSE IF ~MayRetry(att, max_retries)
    THEN {CallResult(st, "QuotaExceededError")}
    ELSE UNION {IF r.error # "ok"
                THEN {CallResult(AfterBind(AfterMark(st), r), "ValueError")}
                ELSE stream_attempts(AfterBind(AfterMark(st), r), d, u, outs, att + 1,
                                     max_retries) :
                    r \in GetNextAccount(AfterMark(st).accounts, d, u, st.cur, st.client_key)}

\* MultiAccountGeminiClient.stream(prompt, context, max_retries) called on a
\* client with _current_account_id c and backend key k, and iterated to its end
stream(accts, d, u, c, k, outs, max_retries) ==
    LET st == [accounts |-> accts, cur |-> c, client_key |-> k, ops |-> << >>] IN
    IF c # None
    THEN stream_attempts(st, d, u, outs, 0, max_retries)
    ELSE UNION {IF r.error # "ok"
                THEN {CallResult(AfterBind(st, r), "ValueError")}
                ELSE stream_attempts(AfterBind(st, r), d, u, outs, 0, max_retries) :
                    r \in GetNextAccount(accts, d, u, c, k)}

\* the ledger operations and the outcome of the results rs
OpsAndOutcome(rs) == {[ops |-> r.ops, outcome |-> r.outcome] : r \in rs}

\* generate and stream are called on the same client and ledger, with the
\* same max_retries and the same backend outcomes
CallBoth(outs, max_retries) ==
    /\ read = NoRead
    /\ read' = [op |-> "rotation", max_retries |-> max_retries, outs |-> outs,
                generate |-> generate(accounts, today, self_user_id, cur, client_key,
                                      outs, max_retries),
                stream |-> stream(accounts, today, self_user_id, cur, client_key,
                                  outs, max_retries)]
    /\ UNCHANGED <<accounts, today, best, marked, env_key, pc, self_user_id, cur,
                   client_key, attempt, requests, outcome, req, sdk_chunks, observed,
                   ws_open, prompt, events, store_calls, sess>>

\* The two methods: the owner has MaxAccounts accounts, each with or without a
\* key, fresh or exhausted; the client is new or holds one of them as current
\* (configured with its key when it has one); max_retries is 0 to its default.
InitRotation ==
    /\ LET l == CHOOSE m \in DailyLimits : \A n \in DailyLimits : m >= n
       IN  accounts \in [1..MaxAccounts ->
                           {[NewRow(1, k, l, 0) EXCEPT !.daily_used = x] :
                               k \in BOOLEAN, x \in {0, l}}]
    /\ today = 0
    /\ best = NoCall
    /\ marked = {}
    /\ env_key = FALSE
    /\ pc = "recv"
    /\ self_user_id = 1
    /\ cur \in {None} \cup (1..MaxAccounts)
    /\ client_key = IF cur # None /\ accounts[cur].has_key THEN cur ELSE None
    /\ attempt = 0
    /\ requests = 0
    /\ outcome = "none"
    /\ req = NewReq(0, {})
    /\ sdk_chunks = << >>
    /\ observed = << >>
    /\ ws_open = TRUE
    /\ prompt = << >>
    /\ events = << >>
    /\ store_calls = << >>
    /\ read = NoRead
    /\ sess = NoSessions

NextRotation ==
    \E max_retries \in 0..MaxRetries :
        \E outs \in [1..max_retries -> BackendOutcomes] : CallBoth(outs, max_retries)

SpecRotation == InitRotation /\ [][NextRotation]_vars

(***************************************************************************)
(* The session controller: websocket_endpoint (chat.py), with the risk     *)
(* filter (security.py) and the memory store (memory_store.py)             *)
(***************************************************************************)
\* user prompts, as sequences of characters
PromptHi == <<"h", "i">>
PromptRm == <<"R", "M", " ", "-", "r", "f">>
PromptOverride == <<"s", "y", "s", "t", "e", "m", " ", "o", "v", "e", "r", "r", "i", "d", "e">>
Prompts == {PromptHi, PromptRm, PromptOverride}

\* if len(prompt) > 10000
MaxPromptChars == 10000

\* risk_patterns, those the prompts of the model can match: (pattern, risk_name)
risk_patterns ==
    << [pattern |-> <<"s", "y", "s", "t", "e", "m", " ", "o", "v", "e", "r", "r", "i", "d", "e">>,
        risk_name |-> "System Override Attempt"],
       [pattern |-> <<"r", "m", " ", "-", "r", "f">>,
        risk_name |-> "Malicious Command (rm -rf)"] >>

\* analyze_prompt searching the prompt as typed, without lower()
analyze_prompt_cased(p) ==
    LET hits == {i \in DOMAIN risk_patterns : Contains(p, risk_patterns[i].pattern)}
    IN IF hits # {}
       THEN [is_safe |-> FALSE,
             reason |-> risk_patterns[CHOOSE i \in hits : \A j \in hits : i <= j].risk_name]
       ELSE IF Len(p) > MaxPromptChars
       THEN [is_safe |-> FALSE, reason |-> "Prompt exceeds maximum length (10k chars)"]
       ELSE [is_safe |-> TRUE, reason |-> "None"]

\* SecurityService.analyze_prompt: the first pattern found in prompt.lower()
\* blocks the prompt, then the length check; reason is risk_name
analyze_prompt(p) ==
    LET prompt_lower == Lower(p)
        hits == {i \in DOMAIN risk_patterns : Contains(prompt_lower, risk_patterns[i].pattern)}
    IN IF hits # {}
       THEN [is_safe |-> FALSE,
             reason |-> risk_patterns[CHOOSE i \in hits : \A j \in hits : i <= j].risk_name]
       ELSE IF Len(p) > MaxPromptChars
       THEN [is_safe |-> FALSE, reason |-> "Prompt exceeds maximum length (10k chars)"]
       ELSE [is_safe |-> TRUE, reason |-> "None"]

\* the contents of the error events: sequences of strings
QuotaHint ==
    <<"All API accounts have exceeded their quota. Please add more accounts or wait for quota reset.">>
GenerationError(msg) == <<"AI generation error: ">> \o msg
Blocked(reason) == <<"Blocked: ", reason, " detected.">>

\* str(e) of the ValueError _get_next_account or GeminiAPIClient.stream raises
ValueErrorMsg(error) ==
    CASE error = "no_quota" ->
            <<"No AI accounts with available quota. Add more accounts or wait for quota reset.">>
      [] error = "no_key" -> <<"Account has no API key configured.">>
      [] OTHER -> <<"No API key configured. Call configure() or set GEMINI_API_KEY.">>

\* Send emitting the event twice
SendTwice(evs, type, content, trace) ==
    evs \o << [type |-> type, content |-> content, trace_id |-> trace],
              [type |-> type, content |-> content, trace_id |-> trace] >>

\* websocket.send_json({"type": ..., "content": ..., "trace_id": trace_id})
Send(evs, type, content, trace) ==
    Append(evs, [type |-> type, content |-> content, trace_id |-> trace])

\* Accumulate keeping only the fragment that arrived last
AccumulateLast(full, chunk) == chunk

\* full_response_text += chunk (strings)
Accumulate(full, chunk) == full \o chunk

\* full_response_text after the fragments obs: "" at the start of the
\* request, then += for every fragment client.stream yields
RECURSIVE FullTextFrom(_, _)
FullTextFrom(full, obs) ==
    IF obs = << >> THEN full
    ELSE FullTextFrom(Accumulate(full, Head(obs)), Tail(obs))

FullText(obs) == FullTextFrom("", obs)

\* store.retrieve_context(user_prompt)
RetrieveContext(p) == [op |-> "retrieve_context", prompt |-> p, response |-> << >>]

\* AddInteraction with the persisting left out
AddInteractionNothing(calls, p, response) == calls

\* store.add_interaction(user_prompt, full_response_text)
AddInteraction(calls, p, response) ==
    Append(calls, [op |-> "add_interaction", prompt |-> p, response |-> response])

\* ErrorContent with one text for every failure of client.stream
ErrorContentGeneric(how, msg) == GenerationError(msg)

\* except QuotaExceededError: the remediation hint; except Exception:
\* f"AI generation error: {str(e)}"
ErrorContent(how, msg) ==
    IF how = "QuotaExceededError" THEN QuotaHint ELSE GenerationError(msg)

\* EndRequest closing the session after the terminal event
EndRequestClose(how, evs, type, content) ==
    /\ outcome' = how
    /\ events' = IF ws_open THEN Send(evs, type, content, requests') ELSE evs
    /\ pc' = "closed"

\* the request ends: the controller sends its terminal event (after evs) and
\* goes back to receive_text (continue, or the end of the loop body); when
\* the peer is gone send_json raises WebSocketDisconnect and the handler returns
EndRequest(how, evs, type, content) ==
    /\ outcome' = how
    /\ events' = IF ws_open THEN Send(evs, type, content, requests') ELSE evs
    /\ pc' = IF ws_open THEN "recv" ELSE "closed"

\* websocket.accept(); client = MultiAccountGeminiClient(user_id)
Connect(u) ==
    /\ pc = "closed"
    /\ pc' = "recv"
    /\ ws_open' = TRUE
    /\ self_user_id' = u
    /\ cur' = None
    /\ client_key' = IF env_key THEN EnvKey ELSE None
    /\ attempt' = 0
    /\ outcome' = "none"
    /\ req' = NewReq(0, {})
    /\ sdk_chunks' = << >>
    /\ observed' = << >>
    /\ prompt' = << >>
    /\ events' = << >>
    /\ store_calls' = << >>
    /\ best' = NoCall
    /\ UNCHANGED <<accounts, today, marked, env_key, requests, read, sess>>

\* the peer closes the websocket while the handler is inside
\* async for chunk in client.stream(...); the handler learns of it at its
\* next send_json
ClientDisconnect ==
    /\ pc = "stream"
    /\ ws_open
    /\ ws_open' = FALSE
    /\ best' = NoCall
    /\ UNCHANGED <<accounts, today, marked, env_key, pc, self_user_id, cur, client_key,
                   attempt, requests, outcome, req, sdk_chunks, observed, prompt,
                   events, store_calls, read, sess>>

\* the peer closes the websocket while the handler awaits receive_text,
\* which raises WebSocketDisconnect: except WebSocketDisconnect, the handler
\* returns, and its client and the locals of the request are gone
Disconnect ==
    /\ pc = "recv"
    /\ ws_open
    /\ ws_open' = FALSE
    /\ pc' = "closed"
    /\ outcome' = "none"
    /\ self_user_id' = None
    /\ cur' = None
    /\ client_key' = None
    /\ attempt' = 0
    /\ req' = NewReq(0, {})
    /\ sdk_chunks' = << >>
    /\ observed' = << >>
    /\ prompt' = << >>
    /\ events' = << >>
    /\ store_calls' = << >>
    /\ best' = NoCall
    /\ UNCHANGED <<accounts, today, marked, env_key, requests, read, sess>>

\* the keys of a message the handler looks at, and the messages of the
\* model: JSON objects that hold any of these keys, each with an empty or a
\* non-empty string
MessageKeys == {"prompt", "content", "message"}
Messages ==
    UNION {[K -> {<< >>, PromptHi}] : K \in SUBSET MessageKeys}

\* data.get(key): None when the key is absent; None and "" are both falsy and
\* both written << >>
Get(data, key) == IF key \in DOMAIN data THEN data[key] ELSE << >>

\* data.get("prompt") or data.get("content") or data.get("message")
UserPrompt(data) ==
    IF Get(data, "prompt") # << >> THEN Get(data, "prompt")
    ELSE IF Get(data, "content") # << >> THEN Get(data, "content")
    ELSE Get(data, "message")

\* OnNoPrompt answering the message with an error event
OnNoPromptError(trace) ==
    <<[type |-> "error", content |-> <<"No prompt provided.">>, trace_id |-> trace]>>

\* if not user_prompt: continue -- what is sent for a message without prompt
OnNoPrompt(trace) == << >>

\* a message without prompt arrives: user_prompt is falsy and the loop
\* continues before a trace id is drawn; the locals of the previous request
\* are stale, the client and its binding stay
IgnoreMessage(data) ==
    /\ pc = "recv"
    /\ ws_open
    /\ UserPrompt(data) = << >>
    /\ prompt' = UserPrompt(data)
    /\ events' = OnNoPrompt(requests)
    /\ store_calls' = << >>
    /\ outcome' = "none"
    /\ attempt' = 0
    /\ req' = NewReq(0, {})
    /\ sdk_chunks' = << >>
    /\ observed' = << >>
    /\ best' = NoCall
    /\ UNCHANGED <<accounts, today, marked, env_key, pc, self_user_id, cur, client_key,
                   requests, ws_open, read, sess>>

\* a message with an unsafe prompt arrives: a trace id is drawn, the risk
\* filter rejects the prompt, one error event is sent, continue
RejectPrompt(p) ==
    /\ pc = "recv"
    /\ ws_open
    /\ requests < MaxRequests
    /\ ~analyze_prompt(p).is_safe
    /\ requests' = requests + 1
    /\ prompt' = p
    /\ store_calls' = << >>
    /\ sdk_chunks' = << >>
    /\ observed' = << >>
    /\ attempt' = 0
    /\ req' = NewReq(Len(accounts),
                     Eligible(reset_daily_quotas_if_needed(accounts, today), self_user_id))
    /\ EndRequest("rejected", << >>, "error", Blocked(analyze_prompt(p).reason))
    /\ best' = NoCall
    /\ UNCHANGED <<accounts, today, marked, env_key, self_user_id, cur, client_key,
                   ws_open, read, sess>>

\* a message with a safe prompt arrives: a trace id is drawn, the context is
\* retrieved, the start event is sent and client.stream is entered:
\* if not self._current_account_id: await self._get_next_account(), then the
\* first attempt calls self._client.stream
StartRequest(p) ==
    /\ pc = "recv"
    /\ ws_open
    /\ requests < MaxRequests
    /\ analyze_prompt(p).is_safe
    /\ requests' = requests + 1
    /\ prompt' = p
    /\ store_calls' = <<RetrieveContext(p)>>
    /\ attempt' = 0
    /\ sdk_chunks' = << >>
    /\ observed' = << >>
    /\ LET r0 == NewReq(Len(accounts),
                        Eligible(reset_daily_quotas_if_needed(accounts, today),
                                 self_user_id))
           started == Send(<< >>, "start", << >>, requests + 1) IN
       IF cur = None
       THEN \E r \in GetNextAccount(accounts, today, self_user_id, cur, client_key) :
              /\ accounts' = r.accounts
              /\ cur' = r.cur
              /\ client_key' = r.client_key
              /\ best' = [user |-> self_user_id, result |-> r.found, called |-> TRUE]
              /\ IF r.error # "ok"
                 THEN /\ EndRequest(r.error, started, "error",
                                    ErrorContent(r.error, ValueErrorMsg(r.error)))
                      /\ req' = [r0 EXCEPT !.binds = 1]
                 ELSE /\ pc' = "stream"
                      /\ outcome' = "running"
                      /\ events' = started
                      /\ req' = [r0 EXCEPT !.binds = 1, !.gen = <<r.cur>>]
       ELSE /\ UNCHANGED <<accounts, cur, client_key>>
            /\ best' = NoCall
            /\ IF client_key = None
               THEN /\ EndRequest("not_configured", started, "error",
                                  ErrorContent("not_configured",
                                               ValueErrorMsg("not_configured")))
                    /\ req' = r0
               ELSE /\ pc' = "stream"
                    /\ outcome' = "running"
                    /\ events' = started
                    /\ req' = [r0 EXCEPT !.gen = <<cur>>]
    /\ UNCHANGED <<today, marked, env_key, self_user_id, ws_open, read, sess>>

\* the SDK stream delivers a chunk; a fragment the backend yields is relayed
\* to the controller, which adds it to full_response_text and sends a chunk
\* event; when the peer is gone send_json raises WebSocketDisconnect and the
\* handler returns
SdkChunk(text) ==
    /\ pc = "stream"
    /\ sdk_chunks' = Append(sdk_chunks, [att |-> attempt, text |-> text])
    /\ observed' = IF BackendYields(text) THEN Relay(observed, text) ELSE observed
    /\ IF ~BackendYields(text)
       THEN UNCHANGED <<pc, outcome, events>>
       ELSE IF ws_open
       THEN /\ events' = Send(events, "chunk", <<text>>, requests)
            /\ UNCHANGED <<pc, outcome>>
       ELSE /\ pc' = "closed"
            /\ outcome' = "disconnected"
            /\ UNCHANGED events
    /\ best' = NoCall
    /\ UNCHANGED <<accounts, today, marked, env_key, self_user_id, cur, client_key,
                   attempt, requests, req, ws_open, prompt, store_calls, read, sess>>

\* the SDK stream ends: await self._on_success(); return; then the
\* controller calls store.add_interaction and sends the done event
SdkComplete ==
    /\ pc = "stream"
    /\ UNCHANGED <<today, marked, env_key, self_user_id, cur, client_key, attempt,
                   requests, sdk_chunks, observed, ws_open, prompt, read, sess>>
    /\ accounts' = OnSuccess(accounts, cur)
    /\ req' = [req EXCEPT !.inc = IF cur # None THEN Append(@, cur) ELSE @]
    /\ store_calls' = AddInteraction(store_calls, prompt, FullText(observed))
    /\ EndRequest("done", events, "done", <<FullText(observed)>>)
    /\ best' = NoCall

\* the SDK stream ends and the UPDATE of increment_usage raises inside
\* _on_success: except Exception: raise, and the controller's except
\* Exception sends an error event and continues
SdkCompleteStorageError ==
    /\ pc = "stream"
    /\ cur # None
    /\ UNCHANGED <<accounts, today, marked, env_key, self_user_id, cur, client_key, attempt,
                   requests, sdk_chunks, observed, ws_open, prompt, store_calls, read, sess>>
    /\ req' = [req EXCEPT !.failed = Append(@, cur)]
    /\ EndRequest("StorageError", events, "error", ErrorContent("StorageError", MsgLocked))
    /\ best' = NoCall

\* the SDK raises: GeminiAPIClient.stream classifies the message, and
\* MultiAccountGeminiClient.stream retries on QuotaExceededError; what it
\* raises reaches the controller, which sends an error event
SdkError(msg) ==
    /\ pc = "stream"
    /\ UNCHANGED <<today, env_key, self_user_id, requests, sdk_chunks, observed,
                   ws_open, prompt, read, sess>>
    /\ IF ~IsQuotaError(msg)
       THEN /\ EndRequest("BackendError", events, "error", ErrorContent("BackendError", msg))
            /\ accounts' = OnOtherError(accounts, cur)
            /\ best' = NoCall
            /\ UNCHANGED <<marked, cur, client_key, attempt, req, store_calls>>
       ELSE IF ~MayRetry(attempt, MaxRetries)
       THEN /\ EndRequest("QuotaExceededError", events, "error",
                          ErrorContent("QuotaExceededError", msg))
            /\ req' = [req EXCEPT !.quota = Append(@, cur)]
            /\ best' = NoCall
            /\ UNCHANGED <<accounts, marked, cur, client_key, attempt, store_calls>>
       ELSE \E r \in GetNextAccount(OnQuotaMark(accounts, cur), today, self_user_id,
                                    cur, client_key) :
              /\ accounts' = r.accounts
              /\ marked' = MarkedAfter(marked, accounts, cur, "429")
              /\ cur' = r.cur
              /\ client_key' = r.client_key
              /\ best' = [user |-> self_user_id, result |-> r.found, called |-> TRUE]
              /\ IF r.error # "ok"
                 THEN /\ EndRequest(r.error, events, "error",
                                    ErrorContent(r.error, ValueErrorMsg(r.error)))
                      /\ req' = [req EXCEPT !.quota = Append(@, cur),
                                            !.mark = Append(@, cur),
                                            !.binds = @ + 1]
                      /\ UNCHANGED <<attempt, store_calls>>
                 ELSE IF attempt + 1 < MaxRetries
                 THEN /\ attempt' = attempt + 1
                      /\ req' = [req EXCEPT !.quota = Append(@, cur),
                                            !.mark = Append(@, cur),
                                            !.binds = @ + 1,
                                            !.gen = Append(@, r.cur)]
                      /\ UNCHANGED <<pc, outcome, events, store_calls>>
                 ELSE \* range(max_retries) is used up: the generator returns
                      /\ store_calls' = AddInteraction(store_calls, prompt, FullText(observed))
                      /\ EndRequest("done", events, "done", <<FullText(observed)>>)
                      /\ req' = [req EXCEPT !.quota = Append(@, cur),
                                            !.mark = Append(@, cur),
                                            !.binds = @ + 1]
                      /\ UNCHANGED attempt

\* The pipeline: one user adds accounts (each with a key) and chats over a
\* connection that the peer closes between two requests, days pass; the SDK
\* delivers at most one chunk per request.
Next ==
    \/ \E l \in DailyLimits :
          Len(accounts) < MaxAccounts /\ add_api_key(1, TRUE, l)
    \/ NextDay
    \/ Connect(1)
    \/ Disconnect
    \/ StartRequest(PromptHi)
    \/ sdk_chunks = << >> /\ SdkChunk("a")
    \/ SdkComplete
    \/ \E m \in SdkErrors : SdkError(m)

Spec == Init /\ [][Next]_vars

\* Streaming: the ledger holds MaxAccounts accounts with a key when the
\* client connects, and the SDK delivers chunks of every text.
InitStream ==
    /\ accounts = [i \in 1..MaxAccounts |->
                      NewRow(1, TRUE, CHOOSE l \in DailyLimits : \A m \in DailyLimits : l >= m, 0)]
    /\ today = 0
    /\ best = NoCall
    /\ marked = {}
    /\ env_key = FALSE
    /\ pc = "closed"
    /\ self_user_id = None
    /\ cur = None
    /\ client_key = None
    /\ attempt = 0
    /\ requests = 0
    /\ outcome = "none"
    /\ req = NewReq(0, {})
    /\ sdk_chunks = << >>
    /\ observed = << >>
    /\ ws_open = FALSE
    /\ prompt = << >>
    /\ events = << >>
    /\ store_calls = << >>
    /\ read = NoRead
    /\ sess = NoSessions

NextStream ==
    \/ Connect(1)
    \/ Disconnect
    \/ StartRequest(PromptHi)
    \/ \E t \in ChunkTexts : Len(sdk_chunks) < MaxChunks /\ SdkChunk(t)
    \/ SdkComplete
    \/ \E m \in SdkErrors : SdkError(m)

SpecStream == InitStream /\ [][NextStream]_vars

\* The session: MaxAccounts accounts with a key exist when the client connects;
\* safe and unsafe prompts and messages without prompt arrive, the SDK
\* delivers chunks of every text, a write of the ledger may fail, and
\* the peer may close the websocket at any moment.
InitSession ==
    /\ accounts = [i \in 1..MaxAccounts |->
                      NewRow(1, TRUE, CHOOSE l \in DailyLimits : \A m \in DailyLimits : l >= m, 0)]
    /\ today = 0
    /\ best = NoCall
    /\ marked = {}
    /\ env_key = FALSE
    /\ pc = "closed"
    /\ self_user_id = None
    /\ cur = None
    /\ client_key = None
    /\ attempt = 0
    /\ requests = 0
    /\ outcome = "none"
    /\ req = NewReq(0, {})
    /\ sdk_chunks = << >>
    /\ observed = << >>
    /\ ws_open = FALSE
    /\ prompt = << >>
    /\ events = << >>
    /\ store_calls = << >>
    /\ read = NoRead
    /\ sess = NoSessions

NextSession ==
    \/ Connect(1)
    \/ ClientDisconnect
    \/ Disconnect
    \/ \E p \in Prompts : StartRequest(p)
    \/ \E p \in Prompts : RejectPrompt(p)
    \/ \E d \in Messages : IgnoreMessage(d)
    \/ \E t \in ChunkTexts : Len(sdk_chunks) < MaxSessionChunks /\ SdkChunk(t)
    \/ SdkComplete
    \/ SdkCompleteStorageError
    \/ \E m \in SdkErrors : SdkError(m)

SpecSession == InitSession /\ [][NextSession]_vars

\* Keys: the owner adds accounts with and without a key (api_key = "" is
\* accepted by AddAPIKeyRequest), GEMINI_API_KEY is set or not, and the owner
\* chats over connections that the peer closes between two requests, on
\* one day and the next.
InitKeys ==
    /\ accounts = << >>
    /\ today = 0
    /\ best = NoCall
    /\ marked = {}
    /\ env_key \in BOOLEAN
    /\ pc = "closed"
    /\ self_user_id = None
    /\ cur = None
    /\ client_key = None
    /\ attempt = 0
    /\ requests = 0
    /\ outcome = "none"
    /\ req = NewReq(0, {})
    /\ sdk_chunks = << >>
    /\ observed = << >>
    /\ ws_open = FALSE
    /\ prompt = << >>
    /\ events = << >>
    /\ store_calls = << >>
    /\ read = NoRead
    /\ sess = NoSessions

NextKeys ==
    \/ \E k \in BOOLEAN, l \in DailyLimits :
          Len(accounts) < MaxRows /\ add_api_key(1, k, l)
    \/ Connect(1)
    \/ Disconnect
    \/ StartRequest(PromptHi)
    \/ SdkComplete
    \/ \E m \in SdkErrors : SdkError(m)
    \/ NextDay

SpecKeys == InitKeys /\ [][NextKeys]_vars

\* Progress: the owner has any number of accounts, from none to max_retries + 1,
\* when the client connects; every backend stream is finite (at most
\* MaxSessionChunks chunks per request) and the event loop keeps running the
\* handler: a request that streams eventually takes its next step.
InitLive ==
    /\ accounts \in {[i \in 1..n |->
                         NewRow(1, TRUE, CHOOSE l \in DailyLimits : \A m \in DailyLimits : l >= m, 0)] :
                      n \in 0..(MaxRetries + 1)}
    /\ today = 0
    /\ best = NoCall
    /\ marked = {}
    /\ env_key = FALSE
    /\ pc = "closed"
    /\ self_user_id = None
    /\ cur = None
    /\ client_key = None
    /\ attempt = 0
    /\ requests = 0
    /\ outcome = "none"
    /\ req = NewReq(0, {})
    /\ sdk_chunks = << >>
    /\ observed = << >>
    /\ ws_open = FALSE
    /\ prompt = << >>
    /\ events = << >>
    /\ store_calls = << >>
    /\ read = NoRead
    /\ sess = NoSessions

\* the next step of the request that streams
StreamStep ==
    \/ Len(sdk_chunks) < MaxSessionChunks /\ SdkChunk("a")
    \/ SdkComplete
    \/ \E m \in SdkErrors : SdkError(m)

NextLive ==
    \/ Connect(1)
    \/ Disconnect
    \/ StartRequest(PromptHi)
    \/ StreamStep

SpecLive == InitLive /\ [][NextLive]_vars /\ WF_vars(StreamStep)

(***************************************************************************)
(* The three modes of a connection: chat.py, websocket_endpoint            *)
(***************************************************************************)
\* GeminiAPIClient.api_key when the client was made from the api_key query
\* parameter of the connection
UserKey == -2

\* the token query parameter: absent, or a JWT that verify_token accepts
\* (signed with JWT_SECRET, not expired, sub = the user's id) or rejects
\* (whatever its sub says)
NoToken == [present |-> FALSE, valid |-> FALSE, sub |-> None]
Tokens == {NoToken} \cup [present : {TRUE}, valid : BOOLEAN, sub : Users]

\* the api_key query parameter: "" stands for an absent or empty one
ApiKeys == {"", "AIza"}

\* get_user_id_from_token taking sub from a token it does not verify
get_user_id_from_token_unverified(token) ==
    IF ~token.present THEN None
    ELSE token.sub

\* get_user_id_from_token: None without token or when verify_token returns
\* None, else int(payload.get("sub"))
get_user_id_from_token(token) ==
    IF ~token.present THEN None
    ELSE IF token.valid THEN token.sub
    ELSE None

\* content of the error event of a connection that has no key at all
NoKeyConfigured ==
    <<"No API key configured. Click Settings to add your Gemini API key.">>

\* websocket.accept() and the choice of the client: MultiAccountGeminiClient
\* for a user id, GeminiAPIClient(api_key) for a key in the query, else
\* GeminiAPIClient(env_api_key), else an error event and websocket.close().
\* read keeps the query parameters the handler was called with.
websocket_endpoint(token, api_key) ==
    LET user_id == get_user_id_from_token(token) IN
    /\ pc = "closed"
    /\ read' = [op |-> "connect", token |-> token, api_key |-> api_key]
    /\ cur' = None
    /\ attempt' = 0
    /\ outcome' = "none"
    /\ req' = NewReq(0, {})
    /\ sdk_chunks' = << >>
    /\ observed' = << >>
    /\ prompt' = << >>
    /\ store_calls' = << >>
    /\ best' = NoCall
    /\ IF user_id # None
       THEN /\ self_user_id' = user_id
            /\ client_key' = IF env_key THEN EnvKey ELSE None
            /\ pc' = "recv"
            /\ ws_open' = TRUE
            /\ events' = << >>
       ELSE IF api_key # ""
       THEN /\ self_user_id' = None
            /\ client_key' = UserKey
            /\ pc' = "recv"
            /\ ws_open' = TRUE
            /\ events' = << >>
       ELSE IF ~env_key
       THEN /\ self_user_id' = None
            /\ client_key' = None
            /\ pc' = "closed"
            /\ ws_open' = FALSE
            /\ events' = Send(<< >>, "error", NoKeyConfigured, None)
       ELSE /\ self_user_id' = None
            /\ client_key' = EnvKey
            /\ pc' = "recv"
            /\ ws_open' = TRUE
            /\ events' = << >>
    /\ UNCHANGED <<accounts, today, marked, env_key, requests, sess>>

\* a prompt arrives on a connection served by a GeminiAPIClient: start
\* event, retrieve_context, then client.stream, which raises ValueError
\* when it has no key and else opens the SDK stream
DirectStart(p) ==
    /\ pc = "recv"
    /\ ws_open
    /\ self_user_id = None
    /\ requests < MaxRequests
    /\ analyze_prompt(p).is_safe
    /\ requests' = requests + 1
    /\ prompt' = p
    /\ store_calls' = <<RetrieveContext(p)>>
    /\ attempt' = 0
    /\ sdk_chunks' = << >>
    /\ observed' = << >>
    /\ req' = NewReq(Len(accounts), {})
    /\ best' = NoCall
    /\ LET started == Send(<< >>, "start", << >>, requests + 1) IN
       IF client_key = None
       THEN EndRequest("not_configured", started, "error",
                       ErrorContent("not_configured", ValueErrorMsg("not_configured")))
       ELSE /\ pc' = "stream"
            /\ outcome' = "running"
            /\ events' = started
    /\ UNCHANGED <<accounts, today, marked, env_key, self_user_id, cur, client_key,
                   ws_open, read, sess>>

\* the SDK stream of a GeminiAPIClient ends: the generator returns, the
\* controller calls store.add_interaction and sends the done event
DirectComplete ==
    /\ pc = "stream"
    /\ self_user_id = None
    /\ UNCHANGED <<accounts, today, marked, env_key, self_user_id, cur, client_key, attempt,
                   requests, req, sdk_chunks, observed, ws_open, prompt, read, sess>>
    /\ store_calls' = AddInteraction(store_calls, prompt, FullText(observed))
    /\ EndRequest("done", events, "done", <<FullText(observed)>>)
    /\ best' = NoCall

\* the SDK of a GeminiAPIClient raises: GeminiAPIClient.stream raises
\* QuotaExceededError or the exception itself, and the controller sends the
\* error event of that branch
DirectError(msg) ==
    /\ pc = "stream"
    /\ self_user_id = None
    /\ UNCHANGED <<accounts, today, marked, env_key, self_user_id, cur, client_key, attempt,
                   requests, req, sdk_chunks, observed, ws_open, prompt, store_calls,
                   read, sess>>
    /\ IF IsQuotaError(msg)
       THEN EndRequest("QuotaExceededError", events, "error",
                       ErrorContent("QuotaExceededError", msg))
       ELSE EndRequest("BackendError", events, "error", ErrorContent("BackendError", msg))
    /\ best' = NoCall

\* Modes: the ledger holds MaxRows fresh accounts of the users,
\* GEMINI_API_KEY is set or not, and connections are opened with any token
\* and any api_key, one after the other.
InitModes ==
    /\ LET l == CHOOSE m \in DailyLimits : \A n \in DailyLimits : m >= n
       IN  accounts \in [1..MaxRows -> {NewRow(u, TRUE, l, 0) : u \in Users}]
    /\ today = 0
    /\ best = NoCall
    /\ marked = {}
    /\ env_key \in BOOLEAN
    /\ pc = "closed"
    /\ self_user_id = None
    /\ cur = None
    /\ client_key = None
    /\ attempt = 0
    /\ requests = 0
    /\ outcome = "none"
    /\ req = NewReq(0, {})
    /\ sdk_chunks = << >>
    /\ observed = << >>
    /\ ws_open = FALSE
    /\ prompt = << >>
    /\ events = << >>
    /\ store_calls = << >>
    /\ read = NoRead
    /\ sess = NoSessions

NextModes ==
    \/ \E token \in Tokens, api_key \in ApiKeys : websocket_endpoint(token, api_key)
    \/ Disconnect
    \/ self_user_id # None /\ StartRequest(PromptHi)
    \/ DirectStart(PromptHi)
    \/ sdk_chunks = << >> /\ SdkChunk("a")
    \/ self_user_id # None /\ SdkComplete
    \/ \E m \in SdkErrors : self_user_id # None /\ SdkError(m)
    \/ DirectComplete
    \/ \E m \in SdkErrors : DirectError(m)

SpecModes == InitModes /\ [][NextModes]_vars

(***************************************************************************)
(* Owners: delete_account and toggle_account with their replies            *)
(***************************************************************************)
\* the ownership test with the user_id condition left out
OwnedByAnyone(accts, account_id, user_id) ==
    account_id \in DOMAIN accts

\* SELECT id FROM ai_accounts WHERE id = ? AND user_id = ?: whether a row
\* is fetched
OwnedBy(accts, account_id, user_id) ==
    /\ account_id \in DOMAIN accts
    /\ accts[account_id].user_id = user_id

\* DELETE FROM ai_accounts WHERE id = ?
DeleteWhereId(accts, account_id) ==
    [i \in DOMAIN accts \ {account_id} |-> accts[i]]

\* UPDATE ai_accounts SET is_active = NOT is_active WHERE id = ? AND user_id = ?
ToggleWhere(accts, account_id, user_id) ==
    [i \in DOMAIN accts |->
        IF i = account_id /\ accts[i].user_id = user_id
        THEN [accts[i] EXCEPT !.is_active = ~@]
        ELSE accts[i]]

\* cursor.rowcount of that UPDATE
ToggleRowcount(accts, account_id, user_id) ==
    Cardinality({i \in DOMAIN accts : i = account_id /\ accts[i].user_id = user_id})

\* the reply of one of the two handlers: 404 (HTTPException) or 200, with
\* is_active as the toggle returns it (FALSE where the reply has none)
Reply(op, account_id, user_id, status, is_active) ==
    [op |-> op, account_id |-> account_id, user_id |-> user_id,
     status |-> status, is_active |-> is_active]

\* DELETE /api/accounts/{account_id}: the ownership SELECT, 404 when it
\* fetches nothing, else the DELETE and commit
delete_account(account_id, user_id) ==
    /\ IF ~OwnedBy(accounts, account_id, user_id)
       THEN /\ read' = Reply("delete_account", account_id, user_id, 404, FALSE)
            /\ UNCHANGED accounts
       ELSE /\ accounts' = DeleteWhereId(accounts, account_id)
            /\ read' = Reply("delete_account", account_id, user_id, 200, FALSE)
    /\ best' = NoCall
    /\ UNCHANGED <<today, marked>>
    /\ UNCHANGED <<clientVars, sessionVars, sess>>

\* PATCH /api/accounts/{account_id}/toggle with its reply: the UPDATE, 404
\* when cursor.rowcount is 0, else SELECT is_active of the row and commit
toggle_account_reply(account_id, user_id) ==
    LET a == ToggleWhere(accounts, account_id, user_id) IN
    /\ IF ToggleRowcount(accounts, account_id, user_id) = 0
       THEN /\ read' = Reply("toggle_account", account_id, user_id, 404, FALSE)
            /\ UNCHANGED accounts
       ELSE /\ accounts' = a
            /\ read' = Reply("toggle_account", account_id, user_id, 200,
                             a[account_id].is_active)
    /\ best' = NoCall
    /\ UNCHANGED <<today, marked>>
    /\ UNCHANGED <<clientVars, sessionVars, sess>>

\* Owners: the table holds MaxRows accounts of the two users, used or not,
\* written on day 0, and both users call the two handlers with every id,
\* one that is in the table or not.
InitOwners ==
    /\ accounts \in [1..MaxRows ->
                       {[NewRow(u, TRUE, l, 0) EXCEPT !.daily_used = x] :
                           u \in Users, l \in DailyLimits, x \in {0, 1}}]
    /\ today \in 0..MaxDay
    /\ best = NoCall
    /\ marked = {}
    /\ env_key = FALSE
    /\ pc = "closed"
    /\ self_user_id = None
    /\ cur = None
    /\ client_key = None
    /\ attempt = 0
    /\ requests = 0
    /\ outcome = "none"
    /\ req = NewReq(0, {})
    /\ sdk_chunks = << >>
    /\ observed = << >>
    /\ ws_open = FALSE
    /\ prompt = << >>
    /\ events = << >>
    /\ store_calls = << >>
    /\ read = NoRead
    /\ sess = NoSessions

NextOwners ==
    \/ \E i \in 1..(MaxRows + 1), u \in Users : delete_account(i, u)
    \/ \E i \in 1..(MaxRows + 1), u \in Users : toggle_account_reply(i, u)

SpecOwners == InitOwners /\ [][NextOwners]_vars

(***************************************************************************)
(* The except clauses of GeminiAPIClient.generate and GeminiAPIClient.stream *)
(***************************************************************************)
\* words the messages of the SDK's exceptions are made of
Words ==
    { <<"4", "2", "9">>, <<"4", "2">>, <<"9">>,
      <<"Q", "u", "o", "t", "a">>,
      <<"R", "A", "T", "E">>, <<"r", "a", "t">>, <<"e">>,
      <<"R", "e", "s", "o", "u", "r", "c", "e", " ", "e", "x", "h", "a", "u", "s", "t", "e", "d">>,
      <<"R", "E", "S", "O", "U", "R", "C", "E", "_", "E", "X", "H", "A", "U", "S", "T", "E", "D">>,
      <<"r", "e", "s", "o", "u", "r", "c", "e", "_">>,
      <<"e", "x", "h", "a", "u", "s", "t", "e", "d">>,
      <<"T", "i", "m", "e", "o", "u", "t">>,
      <<" ">> }

RECURSIVE Concat(_)
Concat(ws) == IF ws = << >> THEN << >> ELSE Head(ws) \o Concat(Tail(ws))

\* str(e) of the exceptions the SDK raises: up to MaxWords words
BackendMessages ==
    {Concat(ws) : ws \in UNION {[1..n -> Words] : n \in 1..MaxWords}}

\* the exception the SDK raises, with its message
SdkException(msg) == [type |-> "APIError", msg |-> msg]

\* except Exception as e (generate): raise QuotaExceededError(str(e)), or raise
generate_except(e) ==
    IF IsQuotaErrorGenerate(e.msg)
    THEN [type |-> "QuotaExceededError", msg |-> e.msg]
    ELSE e

\* except Exception as e (stream): raise QuotaExceededError(str(e)), or raise
stream_except(e) ==
    IF IsQuotaError(e.msg)
    THEN [type |-> "QuotaExceededError", msg |-> e.msg]
    ELSE e

\* the SDK call of generate and the SDK stream of stream fail with the same
\* message; read keeps what each of the two methods raises
BackendFails(msg) ==
    /\ read = NoRead
    /\ read' = [op |-> "classify", msg |-> msg,
                generate |-> generate_except(SdkException(msg)),
                stream |-> stream_except(SdkException(msg))]
    /\ UNCHANGED <<accounts, today, best, marked, env_key, pc, self_user_id, cur,
                   client_key, attempt, requests, outcome, req, sdk_chunks, observed,
                   ws_open, prompt, events, store_calls, sess>>

NextClassify == \E msg \in BackendMessages : BackendFails(msg)

SpecClassify == Init /\ [][NextClassify]_vars

(***************************************************************************)
(* The plan executor: agent.py, execute_plan_websocket                     *)
(***************************************************************************)
\* The handler of /execute is a loop like the one of chat.py and its state
\* is kept in the same variables: pc is "closed", "recv" (receive_json),
\* "loop" (at the head of for step in steps) or "step" (the subprocess of a
\* shell step runs); prompt is data["steps"], attempt the position of step
\* in steps, requests the execute_plan messages received, outcome how the
\* last of them ended, events what send_json has sent since it was received,
\* observed the ids of the steps one of whose stream_pipe tasks is still
\* running although the step is over.

\* the values of step["id"] and step["tool"] in the plans
StepIds == {1, 2}
Tools == {"shell", "python"}
\* data.get("steps", []): a list of at most MaxSteps steps
Plans == UNION {[1..n -> [id : StepIds, tool : Tools]] : n \in 0..MaxSteps}

\* websocket.send_json({"type": ..., "id": step_id, "status": ...}); an
\* event that carries no id or no status has None or "" there
AgentEvent(type, id, status) == [type |-> type, id |-> id, status |-> status]

\* status = "success" if return_code == 0 else "failed"
StatusOf(return_code) == IF return_code = 0 THEN "success" ELSE "failed"

\* the test before break with the plan going on after a failed step
BreaksPlanNever(status) == FALSE

\* if status == "failed": break
BreaksPlan(status) == status = "failed"

\* the handler sends the events sent, in this order, and goes on at nextpc;
\* when the peer is gone the first send_json raises, no except clause of
\* the handler can send anything, and the handler returns
Proceed(sent, nextpc, how, position) ==
    IF ws_open
    THEN /\ events' = events \o sent
         /\ pc' = nextpc
         /\ outcome' = how
         /\ attempt' = position
    ELSE /\ events' = events
         /\ pc' = "closed"
         /\ outcome' = "disconnected"
         /\ attempt' = attempt

\* what the plan executor never touches
agentFrame == <<accounts, today, best, marked, env_key, self_user_id, cur, client_key,
                req, sdk_chunks, store_calls, read, sess>>

\* await websocket.accept()
AgentConnect ==
    /\ pc = "closed"
    /\ pc' = "recv"
    /\ ws_open' = TRUE
    /\ prompt' = << >>
    /\ attempt' = 0
    /\ outcome' = "none"
    /\ events' = << >>
    /\ observed' = << >>
    /\ UNCHANGED requests
    /\ UNCHANGED agentFrame

\* receive_json raises WebSocketDisconnect: the handler returns and its
\* locals are gone
AgentDisconnect ==
    /\ pc = "recv"
    /\ ws_open
    /\ ws_open' = FALSE
    /\ pc' = "closed"
    /\ prompt' = << >>
    /\ attempt' = 0
    /\ outcome' = "none"
    /\ events' = << >>
    /\ UNCHANGED <<observed, requests>>
    /\ UNCHANGED agentFrame

\* the peer goes away while the handler runs a plan
AgentPeerCloses ==
    /\ pc \in {"loop", "step"}
    /\ ws_open
    /\ ws_open' = FALSE
    /\ UNCHANGED <<pc, prompt, attempt, outcome, events, observed, requests>>
    /\ UNCHANGED agentFrame

\* a message whose type is not "execute_plan": continue
ReceiveOther ==
    /\ pc = "recv"
    /\ ws_open
    /\ prompt' = << >>
    /\ events' = << >>
    /\ outcome' = "none"
    /\ attempt' = 0
    /\ UNCHANGED <<pc, ws_open, observed, requests>>
    /\ UNCHANGED agentFrame

\* an execute_plan message: steps = data.get("steps", [])
ReceivePlan(steps) ==
    /\ pc = "recv"
    /\ ws_open
    /\ requests < MaxRequests
    /\ requests' = requests + 1
    /\ prompt' = steps
    /\ events' = << >>
    /\ outcome' = "running"
    /\ attempt' = 1
    /\ pc' = "loop"
    /\ UNCHANGED <<ws_open, observed>>
    /\ UNCHANGED agentFrame

\* the head of the for loop: after the last step plan_done is sent; else
\* step_start is sent and a shell step starts its subprocess, a step of
\* another tool is answered with step_complete, status skipped
StartStep ==
    /\ pc = "loop"
    /\ IF attempt > Len(prompt)
       THEN Proceed(<<AgentEvent("plan_done", None, "")>>, "recv", "plan_done", 0)
       ELSE LET step == prompt[attempt] IN
            IF step.tool = "shell"
            THEN Proceed(<<AgentEvent("step_start", step.id, "")>>, "step", outcome, attempt)
            ELSE Proceed(<<AgentEvent("step_start", step.id, ""),
                           AgentEvent("step_complete", step.id, "skipped")>>,
                         "loop", outcome, attempt + 1)
    /\ UNCHANGED <<ws_open, prompt, observed, requests>>
    /\ UNCHANGED agentFrame

\* stream_pipe reads a line of the subprocess and sends it (one line per
\* step is enough to tell the order of the events)
StepOutput ==
    /\ pc = "step"
    /\ events # << >>
    /\ events[Len(events)].type = "step_start"
    /\ Proceed(<<AgentEvent("step_output", prompt[attempt].id, "")>>, "step", outcome, attempt)
    /\ UNCHANGED <<ws_open, prompt, observed, requests>>
    /\ UNCHANGED agentFrame

\* both pipes are at their end and proc.wait() returns: step_complete with
\* the status, then break and plan_done when the step failed
StepExit(return_code) ==
    LET step == prompt[attempt]
        status == StatusOf(return_code)
        done == AgentEvent("step_complete", step.id, status) IN
    /\ pc = "step"
    /\ IF BreaksPlan(status)
       THEN Proceed(<<done, AgentEvent("plan_done", None, "")>>, "recv", "plan_done", 0)
       ELSE Proceed(<<done>>, "loop", outcome, attempt + 1)
    /\ UNCHANGED <<ws_open, prompt, observed, requests>>
    /\ UNCHANGED agentFrame

\* create_subprocess_shell raises, or a stream_pipe raises inside gather
\* (line.decode()): step_error, break, plan_done. gather does not cancel
\* the other stream_pipe, which may go on sending the lines of its pipe.
StepRaises(orphan) ==
    LET step == prompt[attempt] IN
    /\ pc = "step"
    /\ Proceed(<<AgentEvent("step_error", step.id, ""), AgentEvent("plan_done", None, "")>>,
               "recv", "plan_done", 0)
    /\ observed' = IF orphan /\ ws_open THEN <<step.id>> ELSE observed
    /\ UNCHANGED <<ws_open, prompt, requests>>
    /\ UNCHANGED agentFrame

\* the stream_pipe task a failed gather left behind sends a line of its pipe
\* and reaches the end of the pipe
OrphanOutput ==
    /\ observed # << >>
    /\ events' = IF ws_open
                 THEN Append(events, AgentEvent("step_output", observed[1], ""))
                 ELSE events
    /\ observed' = << >>
    /\ UNCHANGED <<pc, ws_open, prompt, attempt, outcome, requests>>
    /\ UNCHANGED agentFrame

\* The plan executor: one peer connects, sends plans and other messages,
\* and may go away at any time; every shell step exits with 0 or 1 or raises.
NextAgent ==
    \/ AgentConnect
    \/ AgentDisconnect
    \/ AgentPeerCloses
    \/ ReceiveOther
    \/ \E steps \in Plans : ReceivePlan(steps)
    \/ StartStep
    \/ StepOutput
    \/ \E return_code \in {0, 1} : StepExit(return_code)
    \/ \E orphan \in BOOLEAN : StepRaises(orphan)
    \/ OrphanOutput

SpecAgent == Init /\ [][NextAgent]_vars

(***************************************************************************)
(* Claims about the quota ledger.                                          *)
(***************************************************************************)
\* the rows of user u that the claims call eligible, written out on the table
EligibleRows(u) ==
    {i \in DOMAIN accounts :
        /\ accounts[i].user_id = u
        /\ accounts[i].is_active = TRUE
        /\ accounts[i].daily_limit - accounts[i].daily_used > 0}

\* C1: the row get_best_account(owner) returns is never inactive, never owned
\* by another user and never without remaining quota (daily_limit - daily_used
\* > 0), on the table as it stands once the call has applied the day rollover.
C1_BestIsEligible ==
    (best.called /\ best.result # None) =>
        /\ best.result \in DOMAIN accounts
        /\ accounts[best.result].is_active
        /\ accounts[best.result].user_id = best.user
        /\ accounts[best.result].daily_limit - accounts[best.result].daily_used > 0

\* C1 witness: a row was returned while the same owner also has an inactive
\* row with quota left, another row without quota, or another user has a row.
C1_Witness ==
    /\ best.called /\ best.result # None
    /\ \E j \in DOMAIN accounts :
          /\ j # best.result
          /\ \/ accounts[j].user_id = best.user /\ ~accounts[j].is_active
                 /\ accounts[j].daily_used < accounts[j].daily_limit
             \/ accounts[j].user_id # best.user /\ accounts[j].is_active
                 /\ accounts[j].daily_used < accounts[j].daily_limit

\* C2: get_best_account returns a row whose remaining quota is the maximum
\* over the owner's eligible rows, and returns none exactly when the owner
\* has no eligible row.
C2_BestIsMax ==
    best.called =>
        /\ (best.result = None) <=> (EligibleRows(best.user) = {})
        /\ best.result # None =>
              /\ best.result \in EligibleRows(best.user)
              /\ \A j \in EligibleRows(best.user) :
                    accounts[best.result].daily_limit - accounts[best.result].daily_used
                        >= accounts[j].daily_limit - accounts[j].daily_used

\* C2 witness: the returned row beats another eligible row of the same owner
\* that has strictly less remaining quota.
C2_Witness ==
    /\ best.called /\ best.result # None
    /\ \E j \in EligibleRows(best.user) :
          accounts[j].daily_limit - accounts[j].daily_used
              < accounts[best.result].daily_limit - accounts[best.result].daily_used

\* C3: a row given mark_account_error(c, "429") is not returned by
\* get_best_account for the rest of that day, whatever record_success,
\* record_exhaustion and toggle calls come in between.
C3_MarkedNotReturned ==
    (best.called /\ best.result # None) => best.result \notin marked

(***************************************************************************)
(* Claims about the rotating client.                                       *)
(***************************************************************************)
\* C4: a logical request whose stream completes normally records success
\* exactly once, for the credential bound at completion, and that step adds
\* exactly 1 to that credential's daily_used and changes no other row;
\* a request that is still running or has failed has recorded no success,
\* whatever number of its attempts ended in QuotaExceeded.
C4_SuccessCountedOnce ==
    /\ [](outcome = "done" => req.inc = <<cur>>)
    /\ [](outcome # "done" => req.inc = << >>)
    /\ [][(outcome = "running" /\ outcome' = "done") =>
            \A i \in DOMAIN accounts :
                accounts'[i] = [accounts[i] EXCEPT
                                  !.daily_used = IF i = cur THEN @ + 1 ELSE @]]_vars

\* C4 witness: a request completed on one credential after two of its
\* attempts had ended in QuotaExceeded on other credentials.
C4_Witness ==
    /\ outcome = "done"
    /\ Len(req.quota) = 2
    /\ req.inc = <<cur>>
    /\ cur \notin {req.quota[1], req.quota[2]}

\* C5: when the owner has no eligible credential as a logical request starts
\* (the first of a connection or a later one), the request fails with
\* NoQuotaAvailable, no generation call is issued and no counter is touched.
C5_NoEligibleFailsAtOnce ==
    (outcome # "none" /\ req.elig0 = {}) =>
        /\ outcome = "no_quota"
        /\ req.gen = << >>
        /\ req.mark = << >>
        /\ req.inc = << >>

\* the owner's eligible rows with the most remaining quota, once the day
\* rollover is applied to the table
BestAfterRollover(u) ==
    LET used(i) == IF accounts[i].last_reset < today THEN 0 ELSE accounts[i].daily_used
        rem(i) == accounts[i].daily_limit - used(i)
        elig == {i \in DOMAIN accounts :
                    accounts[i].user_id = u /\ accounts[i].is_active /\ rem(i) > 0}
    IN {i \in elig : \A j \in elig : rem(i) >= rem(j)}

\* C6: every logical request of an owner who has eligible credentials starts
\* its generation on a credential whose remaining quota is the maximum among
\* the owner's eligible credentials at the moment the request starts.
C6_GenerationOnBest ==
    [][(/\ requests' = requests + 1
        /\ pc' = "stream"
        /\ BestAfterRollover(self_user_id) # {}) =>
          cur' \in BestAfterRollover(self_user_id)]_vars

\* C7: every QuotaExceeded the backend raises during a logical request, on
\* whichever attempt, is followed by record_exhaustion of the credential
\* bound at that moment: the credentials marked are the credentials that
\* raised, in the same order.
C7_EveryQuotaErrorExhausts ==
    req.mark = req.quota

\* C8: with all credentials but one exhausted when the request starts and a
\* backend that raises QuotaExceeded on every attempt, the request makes at
\* most max_retries bind attempts and the error it ends with is
\* QuotaExceeded.
C8_SurfacesQuotaExceeded ==
    (/\ pc = "recv"
     /\ outcome \notin {"none", "running", "done"}
     /\ req.rows0 >= 2
     /\ Cardinality(req.elig0) = 1
     /\ Len(req.gen) >= 1
     /\ req.gen[1] \in req.elig0
     /\ Len(req.quota) = Len(req.gen)) =>
        /\ req.binds <= MaxRetries
        /\ outcome = "QuotaExceededError"

\* C9: one logical request starts at most max_retries generation attempts,
\* makes at most max_retries account switches and bind attempts, and when
\* each of its max_retries attempts has raised QuotaExceeded the last
\* QuotaExceeded reaches the caller: the request is over, with no bind or
\* attempt after it.
C9_RetryBudget ==
    /\ Len(req.gen) <= MaxRetries
    /\ Len(req.mark) <= MaxRetries
    /\ req.binds <= MaxRetries
    /\ (outcome = "QuotaExceededError" \/ Len(req.quota) = MaxRetries) =>
          /\ outcome = "QuotaExceededError"
          /\ pc = "recv"
          /\ Len(req.gen) = MaxRetries
          /\ Len(req.quota) = MaxRetries
          /\ Len(req.mark) = MaxRetries - 1
          /\ req.binds <= MaxRetries

\* C9 witness: the budget is used up on three different credentials and
\* QuotaExceeded reaches the caller while the owner still has an eligible one.
C9_Witness ==
    /\ outcome = "QuotaExceededError"
    /\ Cardinality({req.gen[i] : i \in 1..Len(req.gen)}) = MaxRetries
    /\ \E i \in DOMAIN accounts :
          /\ accounts[i].user_id = self_user_id
          /\ accounts[i].is_active
          /\ accounts[i].daily_used < accounts[i].daily_limit

\* the texts of the chunks the SDK delivered, those the backend yields
\* (the ones with a non-empty text), in arrival order
BackendFragments ==
    SelectSeq([i \in 1..Len(sdk_chunks) |-> sdk_chunks[i].text], LAMBDA t : t # "")

\* C10: the fragments the caller of MultiAccountGeminiClient.stream has
\* received are exactly the fragments the backend has produced, unchanged and
\* in arrival order, none dropped, duplicated or retracted, also across an
\* attempt that ended in QuotaExceeded.
C10_FragmentsRelayed ==
    observed = BackendFragments

\* C10 witness: the first credential raised QuotaExceeded on its third
\* fragment, the second one completed, and the caller has the two fragments
\* of the first followed by the fragment of the second.
C10_Witness ==
    /\ outcome = "done"
    /\ Len(req.gen) = 2 /\ req.gen[1] # req.gen[2]
    /\ Len(req.quota) = 1
    /\ Len(sdk_chunks) = 3
    /\ sdk_chunks[1].att = 0 /\ sdk_chunks[2].att = 0 /\ sdk_chunks[3].att = 1
    /\ sdk_chunks[1].text # sdk_chunks[2].text
    /\ Len(observed) = 3
    /\ accounts[req.gen[1]].daily_used = accounts[req.gen[1]].daily_limit
    /\ req.inc = <<req.gen[2]>>

\* C11: when the backend raises a failure that is not QuotaExceeded, the
\* rotating client propagates it at once: that step starts no further
\* attempt, does not rebind, calls neither mark_account_error nor
\* increment_usage and leaves every row of the ledger as it was; the request
\* is over and the controller reports the backend's own message.
C11_OtherErrorPropagates ==
    [][(outcome = "running" /\ outcome' = "BackendError") =>
          /\ accounts' = accounts
          /\ cur' = cur
          /\ client_key' = client_key
          /\ attempt' = attempt
          /\ req' = req
          /\ pc' # "stream"
          /\ ws_open =>
                events' = Append(events, [type |-> "error",
                                          content |-> <<"AI generation error: ">> \o MsgTimeout,
                                          trace_id |-> requests])]_vars

\* C11 witness: a non-quota failure ended a request on its second attempt,
\* after a QuotaExceeded on another credential, with quota left on the bound one.
C11_Witness ==
    /\ outcome = "BackendError"
    /\ Len(req.gen) = 2
    /\ Len(req.quota) = 1
    /\ cur = req.gen[2]
    /\ accounts[cur].daily_used < accounts[cur].daily_limit

\* the table after the day rollover, written out: a row whose last_reset is
\* strictly before today has daily_used 0 and last_reset today, every other
\* row is as it was
RolledOver(before, after) ==
    /\ DOMAIN after = DOMAIN before
    /\ \A i \in DOMAIN before :
          IF before[i].last_reset < today
          THEN after[i] = [before[i] EXCEPT !.daily_used = 0, !.last_reset = today]
          ELSE after[i] = before[i]

\* the sum of f over the set S
RECURSIVE TotalOver(_, _)
TotalOver(S, f) ==
    IF S = {} THEN 0
    ELSE LET i == CHOOSE j \in S : TRUE IN f[i] + TotalOver(S \ {i}, f)

\* C12: every call of get_best_account, get_quota_status and list_accounts
\* leaves the ledger rolled over to today (stale rows have daily_used 0 and
\* last_reset today, the rows of today are untouched), and the quotas it
\* returns are those of the rolled-over ledger.
C12_ComparisonsAfterRollover ==
    [][(best'.called \/ read'.op # "none") =>
          /\ RolledOver(accounts, accounts')
          /\ best'.called /\ best'.result # None =>
                \A j \in DOMAIN accounts' :
                    (accounts'[j].user_id = best'.user /\ accounts'[j].is_active) =>
                        accounts'[best'.result].daily_limit - accounts'[best'.result].daily_used
                            >= accounts'[j].daily_limit - accounts'[j].daily_used
          /\ read'.op = "list_accounts" =>
                /\ {r.id : r \in read'.rows}
                      = {j \in DOMAIN accounts' : accounts'[j].user_id = read'.user}
                /\ \A r \in read'.rows :
                      /\ r.daily_used = accounts'[r.id].daily_used
                      /\ r.quota_remaining
                            = accounts'[r.id].daily_limit - accounts'[r.id].daily_used
          /\ read'.op = "get_quota_status" =>
                LET mine == {j \in DOMAIN accounts' : accounts'[j].user_id = read'.user}
                    used == [j \in mine |-> accounts'[j].daily_used]
                    limit == [j \in mine |-> accounts'[j].daily_limit]
                IN /\ read'.total_daily_used = TotalOver(mine, used)
                   /\ read'.total_remaining = TotalOver(mine, limit) - TotalOver(mine, used)
                   /\ read'.best_account_id = best'.result]_vars

\* C12 witness: on day 1 get_quota_status has answered for an owner one of
\* whose rows was rolled over (last_reset 1, daily_used 0) while another row,
\* rolled over by an earlier call of the day and used since, kept its count.
C12_Witness ==
    /\ read.op = "get_quota_status"
    /\ today = 1
    /\ read.total_daily_used = 1
    /\ \E i, j \in DOMAIN accounts :
          /\ accounts[i].user_id = read.user /\ accounts[j].user_id = read.user
          /\ accounts[i].last_reset = 1 /\ accounts[i].daily_used = 0
          /\ accounts[j].last_reset = 1 /\ accounts[j].daily_used = 1

\* C13: the day rollover is applied on writes too: whenever a step writes
\* daily_used of a row (record_success, record_exhaustion or the rollover
\* itself), the row's last_reset is today afterwards, so that the next
\* get_best_account call does not reset what was just recorded.
C13_WritesApplyRollover ==
    [][\A i \in DOMAIN accounts :
          (i \in DOMAIN accounts' /\ accounts'[i].daily_used # accounts[i].daily_used) =>
              accounts'[i].last_reset = today]_vars

(***************************************************************************)
(* Claims about the session controller.                                    *)
(***************************************************************************)
\* the events that end a logical request
IsTerminal(e) == e.type \in {"done", "error"}

\* C14: for a logical request that passed the risk filter, the events sent
\* since its message was received are exactly one start, then zero or more
\* chunk events, then at most one terminal event (done or error), all with
\* the trace id of that request; no terminal event is sent while the stream
\* runs and nothing follows the terminal event.
C14_EventOrder ==
    (outcome \notin {"none", "rejected"}) =>
        LET n == Len(events) IN
        /\ n >= 1
        /\ events[1].type = "start"
        /\ \A k \in 1..n : events[k].trace_id = requests
        /\ \A k \in 2..n : events[k].type \in {"chunk", "done", "error"}
        /\ \A k \in 2..(n - 1) : events[k].type = "chunk"
        /\ pc = "stream" => ~IsTerminal(events[n])
        /\ pc = "recv" => IsTerminal(events[n])

\* C14 witness: the second request of a session has sent start, two chunks
\* and done, all with its own trace id.
C14_Witness ==
    /\ pc = "recv"
    /\ requests = 2
    /\ Len(events) = 4
    /\ events[1].type = "start"
    /\ events[2].type = "chunk" /\ events[3].type = "chunk"
    /\ events[4].type = "done"
    /\ events[4].trace_id = 2

\* the add_interaction calls made since the last message was received
Persisted == SelectSeq(store_calls, LAMBDA c : c.op = "add_interaction")

\* the done events sent since the last message was received
DoneEvents == SelectSeq(events, LAMBDA e : e.type = "done")

\* C15: a done event is sent only when the (prompt, full response) pair of
\* its request has been handed to add_interaction; add_interaction is called
\* exactly once for a request that completed normally, and not at all for a
\* request that is still running or that ended in an error event.
C15_PersistBeforeDone ==
    /\ Len(DoneEvents) <= 1
    /\ DoneEvents # << >> =>
          /\ outcome = "done"
          /\ Persisted = <<[op |-> "add_interaction", prompt |-> prompt,
                            response |-> DoneEvents[1].content[1]]>>
    /\ outcome = "done" =>
          Persisted = <<[op |-> "add_interaction", prompt |-> prompt,
                          response |-> FullText(observed)]>>
    /\ outcome # "done" => Persisted = << >>

\* C15 witness: a request of two fragments completed: its pair was persisted
\* and its done event sent.
C15_Witness ==
    /\ outcome = "done"
    /\ Len(observed) = 2
    /\ Len(Persisted) = 1
    /\ Len(DoneEvents) = 1
    /\ events[Len(events)].type = "done"

\* the error events sent since the last message was received
ErrorEvents == SelectSeq(events, LAMBDA e : e.type = "error")

\* C16: when the rotating client surfaces QuotaExceeded the controller makes
\* no add_interaction call and sends no done event; with the peer connected
\* it has sent exactly one error event, the last event of the request, with
\* the request's trace id and the remediation hint, and is waiting for the
\* next message.
C16_QuotaExceededReported ==
    outcome = "QuotaExceededError" =>
        /\ Persisted = << >>
        /\ DoneEvents = << >>
        /\ ws_open =>
              /\ pc = "recv"
              /\ ErrorEvents =
                    <<[type |-> "error",
                       content |-> <<"All API accounts have exceeded their quota. Please add more accounts or wait for quota reset.">>,
                       trace_id |-> requests]>>
              /\ events[Len(events)].type = "error"

\* C16 witness: QuotaExceeded reached the controller after a fragment had
\* been relayed, and the session is open and waiting.
C16_Witness ==
    /\ outcome = "QuotaExceededError"
    /\ ws_open
    /\ pc = "recv"
    /\ Len(observed) >= 1
    /\ Len(ErrorEvents) = 1

\* C17: when a message arrives whose prompt holds a blocked pattern ("rm -rf"
\* or "system override", in any case), the step that handles it sends exactly
\* one error event with the message's trace id and nothing else: no start
\* event, no retrieve_context, no bind and no generation call, no
\* add_interaction, no change of the ledger or of the bound credential; the
\* handler is back in receive_text.
C17_RejectedPromptOnlyError ==
    [][(requests' = requests + 1 /\ prompt' \in {PromptRm, PromptOverride}) =>
          /\ Len(events') = 1
          /\ events'[1].type = "error"
          /\ events'[1].trace_id = requests'
          /\ store_calls' = << >>
          /\ req'.binds = 0
          /\ req'.gen = << >>
          /\ req'.mark = << >>
          /\ req'.inc = << >>
          /\ accounts' = accounts
          /\ cur' = cur
          /\ client_key' = client_key
          /\ pc' = "recv"]_vars

\* C17 witness: the second message of a session, "RM -rf", was rejected while
\* a credential with quota left was bound.
C17_Witness ==
    /\ outcome = "rejected"
    /\ prompt = PromptRm
    /\ requests = 2
    /\ cur # None
    /\ accounts[cur].daily_used < accounts[cur].daily_limit
    /\ pc = "recv"
    /\ Len(events) = 1

\* how a logical request ends in a business-logic error: no credential with
\* quota, a credential without key, QuotaExceeded, a rejected prompt, a
\* backend failure
BusinessErrors ==
    {"no_quota", "no_key", "not_configured", "QuotaExceededError", "rejected",
     "BackendError"}

\* C18: a business-logic error never closes the session: while the peer is
\* connected, a request that ended in such an error has its error event as
\* the last event sent and the handler is waiting in receive_text; the
\* handler has returned only when the peer is gone.
C18_SessionStaysOpen ==
    /\ (ws_open /\ outcome \in BusinessErrors) =>
          /\ pc = "recv"
          /\ events[Len(events)].type = "error"
    /\ pc = "closed" => ~ws_open

\* C18 witness: the second request of a session ended because no credential
\* has quota left, and the handler is waiting on the open connection.
C18_Witness ==
    /\ outcome = "no_quota"
    /\ requests = 2
    /\ ws_open
    /\ pc = "recv"
    /\ \A i \in DOMAIN accounts : accounts[i].daily_used >= accounts[i].daily_limit

\* C19: once the peer has disconnected while a stream is in progress, the
\* controller takes no further fragment from the generation backend, makes no
\* add_interaction call, sends nothing, and its next step ends the session.
C19_DisconnectStopsStream ==
    [][(pc = "stream" /\ ~ws_open) =>
          /\ observed' = observed
          /\ store_calls' = store_calls
          /\ events' = events
          /\ pc' = "closed"]_vars

(***************************************************************************)
(* Claims about concurrent ledger updates.                                 *)
(***************************************************************************)
\* the sessions whose UPDATE of row i has run
Incremented(i) == {s \in Sessions : sess[s].id = i /\ sess[s].pc \in {"executed", "committed"}}

\* C20: no update is lost: with record_success calls of concurrent sessions
\* interleaved in any way, and no exhaustion mark or day rollover, daily_used
\* of every row (0 at the start) is the number of calls made on it so far.
C20_NoLostUpdate ==
    \A i \in DOMAIN accounts : accounts[i].daily_used = Cardinality(Incremented(i))

\* C20 witness: every session has finished its call, all on the same row,
\* whose daily_used is the number of sessions.
C20_Witness ==
    /\ \A s \in Sessions : sess[s].pc = "committed" /\ sess[s].id = 1
    /\ accounts[1].daily_used = MaxSessions

(***************************************************************************)
(* Claims about the tie-break, the rollup and the frame of the ledger.     *)
(***************************************************************************)
\* C21: get_best_account is deterministic: two calls for the same owner with
\* no change of the ledger in between return the same credential, also when
\* several eligible credentials share the maximal remaining quota.
C21_BestIsDeterministic ==
    [][(/\ best.called
        /\ best'.called
        /\ best'.user = best.user
        /\ accounts' = accounts) => best'.result = best.result]_vars

\* C22: get_quota_status(owner) reports total_accounts = the number of the
\* owner's rows, active_accounts = the number of active ones,
\* total_daily_limit and total_daily_used = the sums over all the owner's
\* rows, active or not, total_remaining = their difference, and
\* best_account_id = what its get_best_account call returned: an eligible row
\* of maximal remaining quota, none exactly when no row is eligible; the call
\* changes the table by the day rollover only.
C22_QuotaStatusRollup ==
    [][(read'.op = "get_quota_status") =>
          LET mine == {j \in DOMAIN accounts' : accounts'[j].user_id = read'.user}
              elig == {j \in mine : accounts'[j].is_active
                                      /\ accounts'[j].daily_used < accounts'[j].daily_limit}
              used == [j \in mine |-> accounts'[j].daily_used]
              limit == [j \in mine |-> accounts'[j].daily_limit]
          IN /\ RolledOver(accounts, accounts')
             /\ today' = today
             /\ read'.total_accounts = Cardinality(mine)
             /\ read'.active_accounts = Cardinality({j \in mine : accounts'[j].is_active})
             /\ read'.total_daily_limit = TotalOver(mine, limit)
             /\ read'.total_daily_used = TotalOver(mine, used)
             /\ read'.total_remaining = read'.total_daily_limit - read'.total_daily_used
             /\ best'.called /\ best'.user = read'.user
             /\ read'.best_account_id = best'.result
             /\ (read'.best_account_id = None) <=> (elig = {})
             /\ read'.best_account_id # None =>
                   /\ read'.best_account_id \in elig
                   /\ \A j \in elig :
                         limit[read'.best_account_id] - used[read'.best_account_id]
                             >= limit[j] - used[j]]_vars

\* C22 witness: the status of an owner with two rows, one of them inactive
\* and used, the other active with quota left and reported as the best.
C22_Witness ==
    /\ read.op = "get_quota_status"
    /\ read.total_accounts = 2
    /\ read.active_accounts = 1
    /\ read.total_daily_used >= 1
    /\ read.total_remaining >= 1
    /\ read.best_account_id # None
    /\ \E j \in DOMAIN accounts :
          /\ accounts[j].user_id = read.user
          /\ ~accounts[j].is_active
          /\ accounts[j].daily_used >= 1

\* C23: a step of the rotating client (a bind with its day rollover, a
\* record_success, a record_exhaustion) neither adds nor removes a row of
\* ai_accounts and leaves user_id, daily_limit, is_active and the key of
\* every row as they were: only daily_used and last_reset change.
C23_RotationFrame ==
    [][(clientVars' # clientVars) =>
          /\ DOMAIN accounts' = DOMAIN accounts
          /\ \A i \in DOMAIN accounts :
                [accounts'[i] EXCEPT !.daily_used = accounts[i].daily_used,
                                     !.last_reset = accounts[i].last_reset] = accounts[i]]_vars

\* C23 witness: on day 1 a request has bound a credential of day 0 (rolled
\* over by the bind), marked another one exhausted and recorded its success,
\* and the ledger still holds all its rows, of different limits.
C23_Witness ==
    /\ outcome = "done"
    /\ today = 1
    /\ Len(req.mark) = 1
    /\ req.inc = <<cur>>
    /\ accounts[cur].last_reset = 1
    /\ accounts[req.mark[1]].daily_used = accounts[req.mark[1]].daily_limit
    /\ Len(accounts) = MaxRows
    /\ \E i, j \in DOMAIN accounts : accounts[i].daily_limit # accounts[j].daily_limit

(***************************************************************************)
(* Claims about messages, full_text and concurrent sessions.               *)
(***************************************************************************)
\* C24: when the handler waits in receive_text and a message arrives that
\* carries no prompt (user_prompt is empty), the step that handles it sends
\* no event, calls neither the memory store nor the rotating client (no
\* bind, no generation, no mark, no increment), draws no trace id, leaves the
\* ledger and the bound credential as they were, and the handler is back in
\* receive_text.
C24_NoPromptIgnored ==
    [][(pc = "recv" /\ ws_open /\ ws_open' /\ prompt' = << >>) =>
          /\ events' = << >>
          /\ store_calls' = << >>
          /\ req'.binds = 0
          /\ req'.gen = << >>
          /\ req'.mark = << >>
          /\ req'.inc = << >>
          /\ accounts' = accounts
          /\ today' = today
          /\ cur' = cur
          /\ client_key' = client_key
          /\ requests' = requests
          /\ pc' = "recv"]_vars

\* C24 witness: a message without prompt was ignored on a session that had
\* completed a request before: the credential is still bound, nothing was
\* sent and the handler waits.
C24_Witness ==
    /\ pc = "recv"
    /\ ws_open
    /\ prompt = << >>
    /\ requests >= 1
    /\ cur # None
    /\ accounts[cur].daily_used >= 1
    /\ events = << >>
    /\ store_calls = << >>

\* the chunk events sent since the last message was received
ChunkEvents == SelectSeq(events, LAMBDA e : e.type = "chunk")

\* the contents of the events evs, joined in order
RECURSIVE Joined(_)
Joined(evs) ==
    IF evs = << >> THEN "" ELSE evs[1].content[1] \o Joined(Tail(evs))

\* C25: for a request that completed normally, the text handed to
\* add_interaction and, with the peer connected, the full_text of the done
\* event both equal the contents of the request's chunk events joined in the
\* order they were sent; there is one chunk event per fragment the backend
\* produced, with the request's trace id, the fragments of attempts that
\* ended in QuotaExceeded included.
C25_FullTextIsConcatenation ==
    outcome = "done" =>
        /\ Len(Persisted) = 1
        /\ Persisted[1].response = Joined(ChunkEvents)
        /\ ws_open =>
              /\ Len(DoneEvents) = 1
              /\ DoneEvents[1].content = <<Joined(ChunkEvents)>>
              /\ DoneEvents[1].trace_id = requests
        /\ [k \in 1..Len(ChunkEvents) |-> ChunkEvents[k].content[1]] = BackendFragments
        /\ \A k \in 1..Len(ChunkEvents) : ChunkEvents[k].trace_id = requests

\* C25 witness: the first credential raised QuotaExceeded after the fragments
\* "a" and "b", the second one delivered "a" and completed: full_text and the
\* persisted response are "aba".
C25_Witness ==
    /\ outcome = "done"
    /\ Len(req.quota) = 1
    /\ Len(sdk_chunks) = 3
    /\ sdk_chunks[2].att = 0 /\ sdk_chunks[3].att = 1
    /\ Len(ChunkEvents) = 3
    /\ DoneEvents[1].content = <<"aba">>
    /\ Persisted[1].response = "aba"

\* the rows marked exhausted today that no rollover has reset since
StillExhausted(accts, m) ==
    {i \in m : i \in DOMAIN accts /\ accts[i].daily_used >= accts[i].daily_limit}

\* C26: once mark_account_error(c, "429") has been applied, no session of the
\* owner starts a generation attempt with c until a rollover resets c:
\* neither the first attempt of a new request nor an attempt after a rebind,
\* also in a session that had bound c before the marking.
C26_NoAttemptOnMarked ==
    [][\A s \in Clients :
          (/\ sess'[s].pc = "stream"
           /\ sess[s].pc = "idle" \/ sess'[s].att # sess[s].att) =>
              sess'[s].id \notin StillExhausted(accounts', marked')]_vars

(***************************************************************************)
(* Claims about the binding, storage failures and termination.             *)
(***************************************************************************)
\* C27: whenever the rotating client holds a current account id, its backend
\* is configured with the key of that account; in particular the attempt
\* whose success or exhaustion is recorded for the current account ran with
\* that account's key.
C27_CurrentIsConfigured ==
    cur # None => client_key = cur

\* C28: a request whose stream completed normally and whose increment_usage
\* then failed is not failed: its interaction is persisted and, with the peer
\* connected, its done event is sent and no error event.
C28_StorageFailureTolerated ==
    req.failed # << >> =>
        /\ outcome = "done"
        /\ Len(Persisted) = 1
        /\ ws_open => (Len(DoneEvents) = 1 /\ ErrorEvents = << >>)

\* how a request ends when client.stream raises to its caller
FailedOutcomes ==
    {"no_quota", "no_key", "not_configured", "QuotaExceededError", "BackendError"}

\* C29: every logical request terminates: a request that has started
\* streaming eventually is DONE (the stream returned and its success was
\* recorded for the bound credential) or FAILED (an error was raised to the
\* caller), whatever QuotaExceeded and other failures occur and however many
\* credentials the owner has.
C29_RequestTerminates ==
    \A k \in 1..MaxRequests :
        (requests = k /\ outcome = "running") ~>
            /\ requests = k
            /\ \/ outcome = "done" /\ req.inc = <<cur>>
               \/ outcome \in FailedOutcomes

\* C29 witness: a request terminated in DONE on its third attempt, after
\* QuotaExceeded on two other credentials.
C29_Witness ==
    /\ outcome = "done"
    /\ Len(req.quota) = MaxRetries - 1
    /\ Len(req.gen) = MaxRetries
    /\ req.inc = <<cur>>
    /\ Len(sdk_chunks) = MaxSessionChunks

C31_OnlyTokenRotates ==
    [][(read'.op = "connect" /\ ~(read'.token.present /\ read'.token.valid)) =>
          /\ self_user_id' = None
          /\ cur' = None
          /\ ~best'.called
          /\ req'.binds = 0
          /\ req'.mark = << >>
          /\ req'.inc = << >>
          /\ accounts' = accounts]_vars

\* C31 witness: a connection opened with a rejected token and an api_key of
\* its own has had a request that ended in QuotaExceededError after a
\* fragment, while the user named in the token has an account with quota left.
C31_Witness ==
    /\ read.op = "connect"
    /\ read.token.present
    /\ ~read.token.valid
    /\ read.api_key # ""
    /\ client_key = UserKey
    /\ outcome = "QuotaExceededError"
    /\ observed # << >>
    /\ Eligible(accounts, read.token.sub) # {}

\* C32: a call of delete_account or toggle_account that names an id which
\* is not in the table or belongs to another user is answered with 404 and
\* leaves the table as it was; a call by the owner is answered with 200: the
\* toggle changes the is_active flag of that row and nothing else (no other
\* column, no other row, no row added or removed) and returns the new flag,
\* the delete removes that row and leaves every other row as it was.
C32_OwnerOnly ==
    [][(read'.op \in {"delete_account", "toggle_account"}) =>
          LET id == read'.account_id
              mine == id \in DOMAIN accounts /\ accounts[id].user_id = read'.user_id
          IN  IF ~mine
              THEN /\ read'.status = 404
                   /\ accounts' = accounts
              ELSE /\ read'.status = 200
                   /\ IF read'.op = "toggle_account"
                      THEN /\ DOMAIN accounts' = DOMAIN accounts
                           /\ \A i \in DOMAIN accounts \ {id} : accounts'[i] = accounts[i]
                           /\ accounts'[id] = [accounts[id] EXCEPT !.is_active = ~@]
                           /\ read'.is_active = accounts'[id].is_active
                      ELSE /\ DOMAIN accounts' = DOMAIN accounts \ {id}
                           /\ \A i \in DOMAIN accounts' : accounts'[i] = accounts[i]]_vars

\* C32 witness: a user has just been refused (404) the deletion of an
\* account of the other user, which is still in the table with quota used,
\* on a day after it was written, after one account was deleted and one
\* deactivated by their owners.
C32_Witness ==
    /\ read.op = "delete_account"
    /\ read.status = 404
    /\ read.account_id \in DOMAIN accounts
    /\ accounts[read.account_id].user_id # read.user_id
    /\ accounts[read.account_id].daily_used = 1
    /\ accounts[read.account_id].last_reset < today
    /\ ~accounts[read.account_id].is_active
    /\ DOMAIN accounts # 1..MaxRows

(***************************************************************************)
(* Claims about the classification of failures and the plan executor.      *)
(***************************************************************************)
\* whether the message, lower-cased, contains one of the indicators
HasIndicator(msg, indicators) ==
    \E ind \in indicators : Contains(Lower(msg), ind)

\* what a failure with this message is surfaced as when exactly the
\* messages with one of the indicators count as quota failures
SurfacedAs(msg, indicators) ==
    IF HasIndicator(msg, indicators)
    THEN [type |-> "QuotaExceededError", msg |-> msg]
    ELSE SdkException(msg)

\* the indicators of the code: "429", "quota", "rate", "resource_exhausted"
CodeIndicators ==
    { <<"4", "2", "9">>, <<"q", "u", "o", "t", "a">>, <<"r", "a", "t", "e">>,
      <<"r", "e", "s", "o", "u", "r", "c", "e", "_", "e", "x", "h", "a", "u", "s", "t", "e", "d">> }

\* the indicators as the claim lists them: "429", "quota", "rate",
\* "resource exhausted"
ClaimIndicators ==
    { <<"4", "2", "9">>, <<"q", "u", "o", "t", "a">>, <<"r", "a", "t", "e">>,
      <<"r", "e", "s", "o", "u", "r", "c", "e", " ", "e", "x", "h", "a", "u", "s", "t", "e", "d">> }

\* C33 (amended): a failure of the backend is surfaced as QuotaExceededError
\* (carrying the message) if and only if its message, lower-cased, contains
\* "429", "quota", "rate" or "resource_exhausted"; any other failure is
\* surfaced as the exception the backend raised; generate and stream agree.
C33_Classification ==
    read.op = "classify" =>
        /\ read.generate = SurfacedAs(read.msg, CodeIndicators)
        /\ read.stream = SurfacedAs(read.msg, CodeIndicators)

\* C33 as stated: the same with the indicators "429", "quota", "rate" and
\* "resource exhausted".
C33_ClassificationAsStated ==
    read.op = "classify" =>
        /\ read.generate = SurfacedAs(read.msg, ClaimIndicators)
        /\ read.stream = SurfacedAs(read.msg, ClaimIndicators)

\* C33 witness: a failure whose message is RESOURCE_EXHAUSTED in capitals,
\* after a blank, has been surfaced as QuotaExceededError by both methods.
C33_Witness ==
    /\ read.op = "classify"
    /\ read.msg = <<" ", "R", "E", "S", "O", "U", "R", "C", "E", "_",
                    "E", "X", "H", "A", "U", "S", "T", "E", "D">>
    /\ read.generate.type = "QuotaExceededError"
    /\ read.stream.type = "QuotaExceededError"

\* the events of the plan being executed but the output lines
Control == SelectSeq(events, LAMBDA e : e.type # "step_output")
StepEnds == {"step_complete", "step_error"}
\* the positions in Control of the step_start events, in order
RECURSIVE StartsFrom(_, _)
StartsFrom(evs, k) ==
    IF k > Len(evs) THEN << >>
    ELSE IF evs[k].type = "step_start" THEN <<evs[k].id>> \o StartsFrom(evs, k + 1)
    ELSE StartsFrom(evs, k + 1)
StartedIds == StartsFrom(Control, 1)
\* whether the event ends a step as failed or raised
Fails(e) == e.type = "step_error" \/ (e.type = "step_complete" /\ e.status = "failed")

\* C34: while and after the handler executes the plan of an execute_plan
\* message, leaving the output lines aside: the steps started are the first
\* steps of the list, in its order; every step_start is followed at once by
\* one step_complete or step_error of the same id (or is the last event
\* while its step runs) and these follow nothing else; after a step_error
\* or a step_complete with status failed no step is started: plan_done
\* follows; plan_done is sent at most once and nothing follows it; and when
\* the handler is back in receive_json after the message, every started
\* step has its end, every step of the list was started unless a step failed
\* or raised, and plan_done has been sent exactly once, as the last event.
C34_PlanExecutor ==
    outcome \in {"running", "plan_done", "disconnected"} =>
        /\ Len(StartedIds) <= Len(prompt)
        /\ \A k \in 1..Len(StartedIds) : StartedIds[k] = prompt[k].id
        /\ \A k \in 1..Len(Control) :
              /\ Control[k].type = "step_start" =>
                    \/ k = Len(Control)
                    \/ /\ Control[k + 1].type \in StepEnds
                       /\ Control[k + 1].id = Control[k].id
              /\ Control[k].type \in StepEnds =>
                    /\ k > 1
                    /\ Control[k - 1].type = "step_start"
                    /\ Control[k - 1].id = Control[k].id
              /\ (Fails(Control[k]) /\ k < Len(Control)) =>
                    Control[k + 1].type = "plan_done"
              /\ Control[k].type = "plan_done" => k = Len(Control)
        /\ (pc = "recv" /\ outcome = "plan_done") =>
              /\ Control # << >>
              /\ Control[Len(Control)].type = "plan_done"
              /\ \/ Len(StartedIds) = Len(prompt)
                 \/ \E k \in 1..Len(Control) : Fails(Control[k])

\* C34 witness: a plan of two steps with different ids is over: the first,
\* a shell step, printed a line and failed, the second was never started,
\* and plan_done was sent.
C34_Witness ==
    /\ pc = "recv"
    /\ outcome = "plan_done"
    /\ Len(prompt) = 2
    /\ prompt[1].tool = "shell"
    /\ prompt[2].id # prompt[1].id
    /\ Len(StartedIds) = 1
    /\ \E k \in 1..Len(events) : events[k].type = "step_output"
    /\ \E k \in 1..Len(Control) :
          Control[k].type = "step_complete" /\ Control[k].status = "failed"

====
